---- MODULE Spec2Model ----
(***************************************************************************)
(* Model of the two routines of the code-assessment tool:                  *)
(*   - the directory scanner of services/fileSystemService.ts              *)
(*     (native File System Access walk and the webkitdirectory fallback),  *)
(*   - the analysis orchestrator of services/llmService.ts                 *)
(*     (analyzeCode, callLLMApi, parseLLMResponse, the model fallback).    *)
(* Every await of the source is a step boundary of the model.              *)
(***************************************************************************)
EXTENDS Integers, Sequences, FiniteSets, TLC

VARIABLES
  scanPc,          \* position of the scan: "idle", "walking", "fallback", "done"
  scanMode,        \* "none", "native" or "fallback"
  tree,            \* the directory the user picked (root directory handle)
  stack,           \* activation records of processDirectoryRecursively
  fbFiles,         \* fallback: files of event.target.files not yet iterated
  codeFiles,       \* FileInfo[] being filled
  supportedFiles,  \* string[] being filled
  scanResult,      \* what selectDirectory / selectDirectoryFallback resolved with
  toasts,          \* user notifications raised so far, in order
  apiKey,          \* llmService module state: the credential ("" when unset)
  selectedModel,   \* llmService module state: the selected model id
  demoMode,        \* llmService module state: the demo flag
  pc,              \* position of analyzeCode: "idle", "loop", "await", "done"
  candidates,      \* the batch analyzeCode was called with
  idx,             \* index of the candidate the for-loop is at
  stage,           \* which callLLMApi of the candidate is awaited: "first", "mini", "last"
  results,         \* results[] of analyzeCode
  requests,        \* every fetch issued, in order, with the reply once it arrived
  outcome,         \* how analyzeCode completed: returned list or thrown error
  changes,         \* configuration changes made while the batch was running
  formCandidates,  \* CodeAssessment: the candidates state of the form
  browse,          \* CandidateForm: the handleLocalFileSelect call in progress
  isApiKeySet,     \* CodeAssessment.isApiKeySet and ApiKeyInput.isKeySet
  isAnalyzing,     \* CodeAssessment: the submit handler is running
  showResults,     \* CodeAssessment: the results dialog is open
  assessmentResults, \* CodeAssessment: the results handed to the dialog
  ops,             \* user operations on the form so far
  lastOp           \* the last user operation on the form

scanVars == <<scanPc, scanMode, tree, stack, fbFiles, codeFiles, supportedFiles, scanResult>>

configVars == <<apiKey, selectedModel, demoMode>>

llmVars == <<pc, candidates, idx, stage, results, requests, outcome, changes>>

formVars == <<formCandidates, browse, isApiKeySet, isAnalyzing, showResults,
              assessmentResults, ops, lastOp>>

vars == <<scanVars, toasts, configVars, llmVars, formVars>>

----------------------------------------------------------------------------
(* Bounds of the explored inputs *)

\* small trees hold at most this many entries (files and directories)
MaxNodes == 3
\* large trees: the number of matching files beyond the cap
ExtraFiles == 50
\* large trees: entries that follow the files filling the cap
TailNodes == 1
\* a batch holds at most this many candidates
MaxCandidates == 2
\* a batch holds at most this many candidates when the user changes the
\* configuration while it runs
RaceCandidates == 1
\* configuration changes the user makes while one batch is running
MaxConfigChanges == 1

----------------------------------------------------------------------------
(* fileSystemService.ts: constants and pure helpers *)

maxFiles == 100

MaxFileSize == 1024 * 1024

CODE_EXTENSIONS ==
  { ".js", ".jsx", ".ts", ".tsx", ".py", ".java", ".cpp", ".c", ".cs", ".php",
    ".rb", ".go", ".rs", ".swift", ".kt", ".scala", ".html", ".css", ".scss",
    ".sass", ".less", ".vue", ".svelte", ".md", ".json", ".yaml", ".yml",
    ".xml", ".sql", ".sh", ".bash", ".ps1", ".r", ".m", ".dart" }

skipDirs == { "node_modules", ".git", "dist", "build", ".next", "coverage", "__pycache__" }

\* A file name is kept as its two parts, stem and final extension (the text
\* from the last dot on, as written); the name is their concatenation.
NameStr(fn) == fn.stem \o fn.ext

\* String.prototype.toLowerCase on the extensions that occur in the inputs.
ToLowerCase(s) ==
  CASE s = ".PY" -> ".py"
    [] s = ".TS" -> ".ts"
    [] s = ".Js" -> ".js"
    [] OTHER -> s

\* fileName.toLowerCase().endsWith(ext): every allow-listed extension starts
\* with its only dot, so the name ends with it exactly when the lowered final
\* extension of the name is that extension.
EndsWithLower(fn, ext) == ToLowerCase(fn.ext) = ext

isCodeFile(fn) == \E ext \in CODE_EXTENSIONS : EndsWithLower(fn, ext)

\* `${currentPath}/${name}` or name
FullPath(currentPath, name) ==
  IF currentPath # "" THEN currentPath \o "/" \o name ELSE name

\* the manifest a completed scan resolves with
DirectoryAnalysis(path, cf, sf) ==
  [tag |-> "analysis", path |-> path, fileCount |-> Len(sf), codeFiles |-> cf, supportedFiles |-> sf]

NullResult == [tag |-> "null"]

NoResult == [tag |-> "pending"]

----------------------------------------------------------------------------
(* Directory trees offered to the scanner *)

File(stem, ext, size, readable) ==
  [kind |-> "file", name |-> [stem |-> stem, ext |-> ext], size |-> size, readable |-> readable]

Dir(name, iterable, entries) ==
  [kind |-> "directory", name |-> [stem |-> name, ext |-> ""], iterable |-> iterable,
   entries |-> entries]

EntryName(e) == NameStr(e.name)

\* the files small trees are built from: a small source file, a 2 MiB source
\* file, a source file of exactly 1 MiB with an upper-case extension, a source
\* file whose read fails, and a file outside the allow-list
BigPy == File("big", ".py", 2 * 1024 * 1024, TRUE)

EdgeTs == File("Edge", ".TS", 1024 * 1024, TRUE)

BadJs == File("bad", ".js", 1024, FALSE)

FileAlphabet ==
  { File("a", ".py", 1024, TRUE), BigPy, EdgeTs, BadJs, File("notes", ".txt", 1024, TRUE) }

\* the k-th of a run of small readable source files
SmallFile(k) == File("f" \o ToString(k), ".py", 1024, TRUE)

SmallFiles(n) == [k \in 1..n |-> SmallFile(k)]

DistinctNames(es) ==
  \A i, j \in 1..Len(es) : i # j => EntryName(es[i]) # EntryName(es[j])

RECURSIVE ForestExact(_, _)
\* the entry sequences with exactly n entries in total, nested at most d deep,
\* sibling names distinct
ForestExact(n, d) ==
  IF n = 0 THEN { <<>> }
  ELSE UNION { LET firsts ==
                     IF k = 1
                     THEN FileAlphabet
                          \cup (IF d > 0
                                THEN { Dir("src", TRUE, <<>>), Dir("src", FALSE, <<>>),
                                       Dir("node_modules", TRUE, <<>>) }
                                ELSE {})
                     ELSE IF d > 0
                          THEN { Dir(nm, TRUE, ch) : nm \in {"src", "node_modules"},
                                                    ch \in ForestExact(k - 1, d - 1) }
                          ELSE {}
               IN { s \in { <<e>> \o r : e \in firsts, r \in ForestExact(n - k, d) } :
                      DistinctNames(s) }
             : k \in 1..n }

Forest(n) == UNION { ForestExact(m, m) : m \in 0..n }

SmallTrees == { Dir("proj", TRUE, es) : es \in Forest(MaxNodes) }

\* one tree per directory name of interest: the directory holds a source file
\* and is followed by a sibling source file
NamedDirTrees ==
  { Dir("proj", TRUE, << Dir(nm, TRUE, << File("in", ".py", 1024, TRUE) >>),
                        File("after", ".py", 1024, TRUE) >>)
      : nm \in skipDirs \cup { "Dist", "lib" } }
  \cup
  { Dir("proj", TRUE, << Dir("src", TRUE, << Dir(nm, TRUE, << BigPy >>),
                                             File("after", ".py", 1024, TRUE) >>) >>)
      : nm \in { "build", "lib" } }

\* trees around the cap: a directory whose first files fill the cap (or stop
\* one short of it), followed inside it by a small forest and outside it by
\* one more source file; and flat directories of maxFiles + ExtraFiles files
BigTrees ==
  { Dir("proj", TRUE, << Dir("pkg", TRUE, SmallFiles(n) \o t),
                        File("last", ".py", 1024, TRUE) >>)
      : n \in { maxFiles - 1, maxFiles }, t \in Forest(TailNodes) }
  \cup { Dir("proj", TRUE, SmallFiles(maxFiles + ExtraFiles)) }
  \cup { Dir("proj", TRUE, << Dir("pkg", TRUE, SmallFiles(maxFiles + ExtraFiles)) >>) }

Trees == SmallTrees \cup NamedDirTrees \cup BigTrees

EmptyTree == Dir("", TRUE, <<>>)

RECURSIVE Flatten(_, _)
\* event.target.files of the upload control for a picked directory: every
\* file below it, depth first, with its webkitRelativePath; a directory that
\* cannot be listed contributes nothing
Flatten(es, prefix) ==
  IF es = <<>> THEN <<>>
  ELSE IF Len(es) = 1
  THEN LET e == es[1]
       IN IF e.kind = "file"
          THEN << [name |-> e.name,
                   webkitRelativePath |-> FullPath(prefix, EntryName(e)),
                   size |-> e.size, readable |-> e.readable] >>
          ELSE IF e.iterable
               THEN Flatten(e.entries, FullPath(prefix, EntryName(e)))
               ELSE <<>>
  ELSE LET half == Len(es) \div 2
       IN Flatten(SubSeq(es, 1, half), prefix) \o Flatten(SubSeq(es, half + 1, Len(es)), prefix)

FileList(t) == Flatten(t.entries, EntryName(t))

----------------------------------------------------------------------------
(* Scanner state machine *)

\* no handleLocalFileSelect call is in progress
NoBrowse == [state |-> "none", id |-> "", list |-> <<>>]

\* the form as mounted (part_001 lines 45-53): one empty candidate with id
\* "1"; isApiKeySet starts from !!getApiKey() (ApiKeyInput.tsx line 20)
FormIdle ==
  /\ formCandidates = << [id |-> "1", name |-> "", githubRepo |-> "", localPath |-> "",
                          localFiles |-> [present |-> FALSE, fileCount |-> 0,
                                          codeFiles |-> <<>>]] >>
  /\ browse = NoBrowse
  /\ isApiKeySet = (apiKey # "")
  /\ isAnalyzing = FALSE
  /\ showResults = FALSE
  /\ assessmentResults = <<>>
  /\ ops = 0
  /\ lastOp = "none"

\* analyzeCode has not been called
LlmIdle ==
  /\ pc = "idle"
  /\ candidates = <<>>
  /\ idx = 0
  /\ stage = "none"
  /\ results = <<>>
  /\ requests = <<>>
  /\ outcome = [tag |-> "pending"]
  /\ changes = 0

\* the module state as loaded (llmService.ts lines 6-8), no scan started
ScanInit ==
  /\ scanPc = "idle"
  /\ scanMode = "none"
  /\ tree = EmptyTree
  /\ stack = <<>>
  /\ fbFiles = <<>>
  /\ codeFiles = <<>>
  /\ supportedFiles = <<>>
  /\ scanResult = NoResult
  /\ toasts = <<>>
  /\ apiKey = ""
  /\ selectedModel = "gpt-4o"
  /\ demoMode = FALSE
  /\ LlmIdle
  /\ FormIdle

Toast(title, description, variant) ==
  [title |-> title, description |-> description, variant |-> variant]

FoundText(nFound, nCode) == <<"Found", nFound, "files", nCode, "code files">>

\* a call of processDirectoryRecursively(handle, path, ...): the entry check
\* of the cap, then the iteration of handle.entries(); a handle whose listing
\* throws is caught by the call's own try/catch and yields nothing
CallProcess(stk, handle, path, cf) ==
  IF Len(cf) >= maxFiles
  THEN stk
  ELSE Append(stk, [path |-> path,
                    entries |-> IF handle.iterable THEN handle.entries ELSE <<>>])

Top == stack[Len(stack)]

Advance == [stack EXCEPT ![Len(stack)].entries = Tail(@)]

\* selectDirectory: the picker resolved with a handle; analyzeDirectory starts
SelectDirectoryFrom(trees) ==
  /\ scanPc = "idle"
  /\ UNCHANGED <<configVars, llmVars>>
  /\ \E t \in trees :
       /\ tree' = t
       /\ stack' = CallProcess(<<>>, t, "", <<>>)
  /\ scanMode' = "native"
  /\ scanPc' = "walking"
  /\ codeFiles' = <<>>
  /\ supportedFiles' = <<>>
  /\ UNCHANGED <<fbFiles, scanResult, toasts>>

SelectDirectory == SelectDirectoryFrom(Trees)

SelectDirectoryAbortReported ==
  /\ scanPc = "idle"
  /\ UNCHANGED <<configVars, llmVars>>
  /\ scanMode' = "native"
  /\ scanPc' = "done"
  /\ scanResult' = NullResult
  /\ toasts' = Append(toasts, [title |-> "Directory selection failed",
                               description |-> "error.message", variant |-> "destructive"])
  /\ UNCHANGED <<tree, stack, fbFiles, codeFiles, supportedFiles>>

\* selectDirectory: showDirectoryPicker rejected with AbortError
SelectDirectoryAbort ==
  /\ scanPc = "idle"
  /\ UNCHANGED <<configVars, llmVars>>
  /\ scanMode' = "native"
  /\ scanPc' = "done"
  /\ scanResult' = NullResult
  /\ UNCHANGED <<tree, stack, fbFiles, codeFiles, supportedFiles, toasts>>

\* selectDirectory: no showDirectoryPicker in window, or the picker rejected
\* with another error
SelectDirectoryError ==
  /\ scanPc = "idle"
  /\ UNCHANGED <<configVars, llmVars>>
  /\ scanMode' = "native"
  /\ scanPc' = "done"
  /\ scanResult' = NullResult
  /\ toasts' = Append(toasts, Toast("Directory selection failed", "error.message", "destructive"))
  /\ UNCHANGED <<tree, stack, fbFiles, codeFiles, supportedFiles>>

CapReachedNever(cf) == FALSE

CapReachedOffByOne(cf) == Len(cf) > maxFiles

\* the cap test at the head of the loop
CapReached(cf) == Len(cf) >= maxFiles

ReadsFileUpToLimit(e) == e.readable /\ ~(e.size >= MaxFileSize)

ReadsFileIgnoringErrors(e) == ~(e.size > MaxFileSize)

\* getFile() and text() succeed and the size test lets the file through
ReadsFile(e) == e.readable /\ ~(e.size > MaxFileSize)

\* one loop iteration on a file entry
WalkFile ==
  /\ scanPc = "walking"
  /\ UNCHANGED <<configVars, llmVars>>
  /\ stack # <<>>
  /\ Top.entries # <<>>
  /\ ~CapReached(codeFiles)
  /\ LET e == Head(Top.entries)
         fullPath == FullPath(Top.path, EntryName(e))
     IN /\ e.kind = "file"
        /\ IF isCodeFile(e.name)
           THEN /\ supportedFiles' = Append(supportedFiles, fullPath)
                /\ codeFiles' = IF ReadsFile(e)
                                THEN Append(codeFiles, [name |-> NameStr(e.name), path |-> fullPath])
                                ELSE codeFiles
           ELSE UNCHANGED <<codeFiles, supportedFiles>>
  /\ stack' = Advance
  /\ UNCHANGED <<scanPc, scanMode, tree, fbFiles, scanResult, toasts>>

SkipsDirectoryNone(name) == FALSE

SkipsDirectory(name) == name \in skipDirs

\* one loop iteration on a directory entry
WalkDirectory ==
  /\ scanPc = "walking"
  /\ UNCHANGED <<configVars, llmVars>>
  /\ stack # <<>>
  /\ Top.entries # <<>>
  /\ ~CapReached(codeFiles)
  /\ LET e == Head(Top.entries)
         fullPath == FullPath(Top.path, EntryName(e))
     IN /\ e.kind = "directory"
        /\ stack' = IF ~SkipsDirectory(EntryName(e))
                    THEN CallProcess(Advance, e, fullPath, codeFiles)
                    ELSE Advance
  /\ UNCHANGED <<scanPc, scanMode, tree, fbFiles, codeFiles, supportedFiles, scanResult, toasts>>

\* the loop of one call ends: its iterator is exhausted, or the cap test breaks
WalkReturn ==
  /\ scanPc = "walking"
  /\ UNCHANGED <<configVars, llmVars>>
  /\ stack # <<>>
  /\ Top.entries = <<>> \/ CapReached(codeFiles)
  /\ stack' = SubSeq(stack, 1, Len(stack) - 1)
  /\ UNCHANGED <<scanPc, scanMode, tree, fbFiles, codeFiles, supportedFiles, scanResult, toasts>>

\* analyzeDirectory returns the manifest; selectDirectory reports it
AnalyzeDirectoryDone ==
  /\ scanPc = "walking"
  /\ UNCHANGED <<configVars, llmVars>>
  /\ stack = <<>>
  /\ scanResult' = DirectoryAnalysis(EntryName(tree), codeFiles, supportedFiles)
  /\ toasts' = Append(toasts, Toast("Directory selected",
                                    FoundText(Len(supportedFiles), Len(codeFiles)), "default"))
  /\ scanPc' = "done"
  /\ UNCHANGED <<scanMode, tree, stack, fbFiles, codeFiles, supportedFiles>>

\* selectDirectoryFallback: input.onchange with the picked directory's files
FallbackChangeFrom(trees) ==
  /\ scanPc = "idle"
  /\ UNCHANGED <<configVars, llmVars>>
  /\ \E t \in trees :
       /\ tree' = t
       /\ IF Len(FileList(t)) = 0
          THEN /\ scanPc' = "done"
               /\ scanResult' = NullResult
               /\ fbFiles' = <<>>
          ELSE /\ scanPc' = "fallback"
               /\ scanResult' = scanResult
               /\ fbFiles' = FileList(t)
  /\ scanMode' = "fallback"
  /\ codeFiles' = <<>>
  /\ supportedFiles' = <<>>
  /\ UNCHANGED <<stack, toasts>>

FallbackChange == FallbackChangeFrom(Trees)

\* selectDirectoryFallback: input.oncancel
FallbackCancel ==
  /\ scanPc = "idle"
  /\ UNCHANGED <<configVars, llmVars>>
  /\ scanMode' = "fallback"
  /\ scanPc' = "done"
  /\ scanResult' = NullResult
  /\ UNCHANGED <<tree, stack, fbFiles, codeFiles, supportedFiles, toasts>>

FallbackAccepts(f) == isCodeFile(f.name) /\ f.size <= MaxFileSize

\* one iteration of the loop over the files; a failing file.text() leaves the
\* loop through the handler's catch
FallbackFile ==
  /\ scanPc = "fallback"
  /\ UNCHANGED <<configVars, llmVars>>
  /\ fbFiles # <<>>
  /\ LET f == Head(fbFiles)
     IN IF FallbackAccepts(f)
        THEN IF Len(codeFiles) < 100
             THEN IF f.readable
                  THEN /\ supportedFiles' = Append(supportedFiles, f.webkitRelativePath)
                       /\ codeFiles' = Append(codeFiles, [name |-> NameStr(f.name),
                                                          path |-> f.webkitRelativePath])
                       /\ fbFiles' = Tail(fbFiles)
                       /\ UNCHANGED <<scanPc, scanResult, toasts>>
                  ELSE /\ supportedFiles' = Append(supportedFiles, f.webkitRelativePath)
                       /\ scanPc' = "done"
                       /\ scanResult' = NullResult
                       /\ toasts' = Append(toasts, Toast("Directory processing failed",
                                                         "Could not process the selected directory",
                                                         "destructive"))
                       /\ UNCHANGED <<codeFiles, fbFiles>>
             ELSE /\ supportedFiles' = Append(supportedFiles, f.webkitRelativePath)
                  /\ fbFiles' = Tail(fbFiles)
                  /\ UNCHANGED <<codeFiles, scanPc, scanResult, toasts>>
        ELSE /\ fbFiles' = Tail(fbFiles)
             /\ UNCHANGED <<codeFiles, supportedFiles, scanPc, scanResult, toasts>>
  /\ UNCHANGED <<scanMode, tree, stack>>

\* the loop is over: the manifest is built, reported and resolved
FallbackDone ==
  /\ scanPc = "fallback"
  /\ UNCHANGED <<configVars, llmVars>>
  /\ fbFiles = <<>>
  /\ scanResult' = DirectoryAnalysis(EntryName(tree), codeFiles, supportedFiles)
  /\ toasts' = Append(toasts, Toast("Directory selected",
                                    FoundText(Len(supportedFiles), Len(codeFiles)), "default"))
  /\ scanPc' = "done"
  /\ UNCHANGED <<scanMode, tree, stack, fbFiles, codeFiles, supportedFiles>>

\* what the onchange handler of selectDirectoryFallback resolves with for the
\* files of a picked directory: the loop over the files reads the first 100
\* accepted files and records the path of every accepted file; a failing
\* file.text() ends the handler in its catch
FallbackManifest(t) ==
  LET files == FileList(t)
      accepted == SelectSeq(files, FallbackAccepts)
      read == SubSeq(accepted, 1, IF Len(accepted) < 100 THEN Len(accepted) ELSE 100)
  IN IF Len(files) = 0 \/ \E i \in 1..Len(read) : ~read[i].readable
     THEN NullResult
     ELSE DirectoryAnalysis(EntryName(t),
                            [i \in 1..Len(read) |->
                               [name |-> NameStr(read[i].name), path |-> read[i].webkitRelativePath]],
                            [i \in 1..Len(accepted) |-> accepted[i].webkitRelativePath])

ScanNext ==
  \/ SelectDirectory /\ UNCHANGED formVars
  \/ SelectDirectoryAbort /\ UNCHANGED formVars
  \/ SelectDirectoryError /\ UNCHANGED formVars
  \/ WalkFile /\ UNCHANGED formVars
  \/ WalkDirectory /\ UNCHANGED formVars
  \/ WalkReturn /\ UNCHANGED formVars
  \/ AnalyzeDirectoryDone /\ UNCHANGED formVars
  \/ FallbackChange /\ UNCHANGED formVars
  \/ FallbackCancel /\ UNCHANGED formVars
  \/ FallbackFile /\ UNCHANGED formVars
  \/ FallbackDone /\ UNCHANGED formVars

ScanSpec == ScanInit /\ [][ScanNext]_vars

----------------------------------------------------------------------------
(* llmService.ts: messages, substring tests, remote replies *)

AVAILABLE_MODELS == << "gpt-4o", "gpt-4o-mini", "gpt-3.5-turbo" >>

ModelIds == { AVAILABLE_MODELS[i] : i \in 1..Len(AVAILABLE_MODELS) }

MsgNoKey == "API key not set. Please provide an API key or enable Demo Mode."

MsgNoResults == "No valid analysis results were obtained. Please check your inputs and API key."

MsgAllQuota == "API quota exceeded for all available models. Please check your OpenAI billing status or try again later."

MsgNoAccessRequested == "Your OpenAI account doesn't have access to the requested model. Please try a different model or request access from OpenAI."

MsgKeyNotProvided == "API key not provided"

MsgInvalidKey == "Invalid API key. Please check your OpenAI API key and try again."

MsgQuotaFriendly == "OpenAI API quota exceeded. Please check your billing information or add credits to your OpenAI account."

MsgNoAccessModel(model) ==
  "Your OpenAI account doesn't have access to the " \o model
    \o " model. Please use a different model or request access from OpenAI."

MsgRateFriendly == "Rate limit exceeded. Please try again in a few moments or consider upgrading your OpenAI account for higher rate limits."

MsgBilling == "There's an issue with your OpenAI billing. Please check your payment details in your OpenAI account."

MsgStatus(status) == "API request failed with status " \o ToString(status)

MsgNoContent == "No response content received from API. Invalid response format."

MsgFetchFailed == "Failed to fetch"

\* error messages the remote endpoint sends in {error: {message}}
RemoteQuota == "You exceeded your current quota, please check your plan and billing details."

RemoteRatePlain == "Rate limit reached for requests per min. Please try again in 20s."

RemoteRatePay == "Rate limit reached for requests per min. Please add a payment method to your account to increase your rate limit. Visit the billing page to add a payment method."

RemoteModel == "The model does not exist or you do not have access to it."

RemoteKey == "Incorrect API key provided. You can find your API key in your account settings."

RemoteServer == "The server had an error while processing your request."

\* which of the phrases the code searches for occur in a text (case-sensitive)
Substrings(text) ==
  CASE text = RemoteQuota -> { "You exceeded your current quota", "billing" }
    [] text = RemoteRatePay -> { "rate limit", "payment", "billing" }
    [] text = RemoteModel -> { "does not exist" }
    [] text = RemoteKey -> { "Incorrect API key" }
    [] text = MsgAllQuota -> { "quota exceeded", "billing" }
    [] text = MsgQuotaFriendly -> { "quota exceeded", "billing" }
    [] text = MsgRateFriendly -> { "rate limit" }
    [] text = MsgBilling -> { "billing", "payment" }
    [] text = MsgNoAccessRequested -> { "doesn't have access" }
    [] OTHER -> {}

\* String.prototype.includes
Includes(text, phrase) == phrase \in Substrings(text)

\* the text of a reply as a sequence of tokens: a valid JSON object (with its
\* scores object, a field absent when not in the domain, and whether the
\* three arrays are present), prose without braces, and a single brace
\* standing in the prose
Token(tok, scores, hasArrays) == [tok |-> tok, scores |-> scores, hasArrays |-> hasArrays]

Object(scores, hasArrays) == Token("object", scores, hasArrays)

Prose == Token("prose", <<>>, FALSE)

OpenBrace == Token("{", <<>>, FALSE)

CloseBrace == Token("}", <<>>, FALSE)

ContentFull ==
  << Object([readability |-> 90, extensibility |-> 85, testability |-> 80,
             originalityScore |-> 95, seniorityFit |-> 90, overallScore |-> 91], TRUE) >>

ContentNoOverall ==
  << Prose,
     Object([readability |-> 80, extensibility |-> 70, testability |-> 60,
             originalityScore |-> 90, seniorityFit |-> 75], TRUE),
     Prose >>

ContentNotJson == << Prose >>

NoContent == <<>>

Reply(kind, status, body, message, content) ==
  [kind |-> kind, status |-> status, body |-> body, message |-> message, content |-> content]

\* fetch resolved with response.ok and a body holding choices[0].message.content
SuccessReplies ==
  { Reply("ok", 200, "choices", "", c) : c \in { ContentFull, ContentNoOverall, ContentNotJson } }

\* fetch resolved with !response.ok: the body is {error: {message}}, or holds
\* no error.message, or is not JSON
FailureReplies ==
  { Reply("error", 429, "message", RemoteQuota, NoContent),
    Reply("error", 429, "message", RemoteRatePlain, NoContent),
    Reply("error", 429, "message", RemoteRatePay, NoContent),
    Reply("error", 404, "message", RemoteModel, NoContent),
    Reply("error", 401, "message", RemoteKey, NoContent),
    Reply("error", 500, "notjson", "", NoContent) }

\* fetch resolved with response.ok and no choices; fetch rejected
OtherReplies ==
  { Reply("ok", 200, "nochoices", "", NoContent),
    Reply("rejected", 0, "", "", NoContent) }

Replies == SuccessReplies \cup FailureReplies \cup OtherReplies

NoReply == Reply("pending", 0, "", "", NoContent)

\* the try block of lines 335-364: the message it leaves in errorMessage and
\* the error it throws ("" when it completes normally)
ErrorBodyTry(reply, model) ==
  IF reply.body = "notjson"
  THEN [errorMessage |-> MsgStatus(reply.status), thrown |-> "SyntaxError"]
  ELSE IF reply.body # "message"
  THEN [errorMessage |-> MsgStatus(reply.status), thrown |-> ""]
  ELSE [errorMessage |-> reply.message,
        thrown |->
          IF Includes(reply.message, "Incorrect API key") THEN MsgInvalidKey
          ELSE IF Includes(reply.message, "You exceeded your current quota") THEN MsgQuotaFriendly
          ELSE IF Includes(reply.message, "model_not_found")
                  \/ Includes(reply.message, "does not exist") THEN MsgNoAccessModel(model)
          ELSE IF reply.status = 429 THEN MsgRateFriendly
          ELSE IF Includes(reply.message, "billing")
                  \/ Includes(reply.message, "payment") THEN MsgBilling
          ELSE ""]

\* the !response.ok branch: whatever the try block throws is caught by its
\* own catch (jsonError), which only logs; line 370 then throws errorMessage
ErrorOf(reply, model) == ErrorBodyTry(reply, model).errorMessage

\* callLLMApi from the moment fetch settles: the content it returns or the
\* message of the Error it throws
callLLMApi(reply, model) ==
  CASE reply.kind = "rejected" -> [ok |-> FALSE, content |-> NoContent, message |-> MsgFetchFailed]
    [] reply.kind = "error" -> [ok |-> FALSE, content |-> NoContent, message |-> ErrorOf(reply, model)]
    [] reply.kind = "ok" /\ reply.body = "nochoices" ->
         [ok |-> FALSE, content |-> NoContent, message |-> MsgNoContent]
    [] OTHER -> [ok |-> TRUE, content |-> reply.content, message |-> ""]

----------------------------------------------------------------------------
(* llmService.ts: candidates, parsing, sorting, mock results *)

\* CandidateData.localFiles: absent, or the manifest the directory picker
\* stored with the path
NoLocalFiles == [present |-> FALSE, fileCount |-> 0, codeFiles |-> <<>>]

ScannedFiles ==
  [present |-> TRUE, fileCount |-> 2,
   codeFiles |-> << [name |-> "main.py", path |-> "main.py", content |-> "print(1)"],
                    [name |-> "util.py", path |-> "lib/util.py", content |-> "pass"] >>]

Candidate(id, name, githubRepo, localPath, localFiles) ==
  [id |-> id, name |-> name, githubRepo |-> githubRepo, localPath |-> localPath,
   localFiles |-> localFiles]

\* String.prototype.trim on the field values that occur
Trim(str) == IF str = "   " THEN "" ELSE str

\* !value || value.trim() === ''
Blank(str) == str = "" \/ Trim(str) = ""

\* githubRepo, localPath and localFiles of a candidate: URL typed and
\* directory picked, directory picked (the URL field holding blanks), nothing
\* set, blanks typed into the path field
SourcePairs ==
  { << "https://github.com/ada/app", "proj", ScannedFiles >>,
    << "   ", "proj", ScannedFiles >>,
    << "", "", NoLocalFiles >>,
    << "", "   ", NoLocalFiles >> }

NameOfCandidate(i) == IF i = 2 THEN "" ELSE "Dev" \o ToString(i)

\* the ids of a list of n candidates built by the form: "1", "2", ... after
\* n - 1 calls of addCandidate, and "2", ..., "n", "n" after n - 1 calls of
\* addCandidate, removeCandidate("1") and one more addCandidate (the new id
\* is the length of the list plus one)
IdLists(n) ==
  { [i \in 1..n |-> ToString(i)] }
    \cup (IF n >= 2 THEN { [i \in 1..n |-> IF i = n THEN ToString(n) ELSE ToString(i + 1)] }
          ELSE {})

\* the batches analyzeCode is called with, the second candidate unnamed
BatchesUpTo(max) ==
  UNION { { [i \in 1..n |-> Candidate(ids[i], NameOfCandidate(i), f[i][1], f[i][2], f[i][3])]
              : f \in [1..n -> SourcePairs], ids \in IdLists(n) }
          : n \in 0..max }

Batches == BatchesUpTo(MaxCandidates)

RaceBatches == BatchesUpTo(RaceCandidates)

NoSourceUntrimmed(c) == c.githubRepo = "" /\ c.localPath = ""

\* the condition of lines 73-74
NoSource(c) == Blank(c.githubRepo) /\ Blank(c.localPath)

\* lines 80-89
CodeSource(c) ==
  IF ~Blank(c.githubRepo) THEN c.githubRepo
  ELSE "Local path: " \o c.localPath

\* candidate.name || `Candidate ${candidate.id}`
DisplayName(c) == IF c.name # "" THEN c.name ELSE "Candidate " \o c.id

\* parsedResponse.scores?.field || 0
ScoreOr0(scores, field) ==
  IF field \in DOMAIN scores /\ scores[field] # 0 THEN scores[field] ELSE 0

\* Math.round of sum / 5 for a sum of non-negative integers
RoundMean5(sum) == (2 * sum + 5) \div 10

\* the three arrays of a result
Arrays(feedback, strengths, areasToImprove) ==
  [feedback |-> feedback, strengths |-> strengths, areasToImprove |-> areasToImprove]

\* lines 420-422: the arrays of the response, else one placeholder each
ParsedArrays(hasArrays) ==
  IF hasArrays
  THEN Arrays(<< "feedback of the response" >>, << "strengths of the response" >>,
              << "areas of the response" >>)
  ELSE Arrays(<< "No detailed feedback provided" >>, << "No strengths identified" >>,
              << "No areas to improve identified" >>)

\* lines 447-449
FallbackArrays ==
  Arrays(<< "Failed to parse LLM analysis results" >>, << "Could not determine strengths" >>,
         << "Could not determine areas for improvement" >>)

\* lines 246-248: items of the mock pools
MockArrays ==
  Arrays(<< "mock feedback" >>, << "mock strengths" >>, << "mock areas to improve" >>)

CandidateResult(c, r, e, t, o, s, overall, arrays) ==
  [candidateId |-> c.id, candidateName |-> DisplayName(c),
   scores |-> [readability |-> r, extensibility |-> e, testability |-> t,
               originalityScore |-> o, seniorityFit |-> s, overallScore |-> overall],
   feedback |-> arrays.feedback, strengths |-> arrays.strengths,
   areasToImprove |-> arrays.areasToImprove]

\* llmResponse.match(/\{[\s\S]*\}/): from the first opening brace to the last
\* closing brace behind it; the whole text when there is no match (line 397)
JsonMatch(text) ==
  LET opens == { i \in 1..Len(text) : text[i].tok \in { "{", "object" } }
      closes == { i \in 1..Len(text) : text[i].tok \in { "}", "object" } }
  IN IF opens = {} \/ closes = {} THEN text
     ELSE LET first == CHOOSE i \in opens : \A j \in opens : i <= j
              last == CHOOSE i \in closes : \A j \in closes : i >= j
          IN IF last > first \/ (last = first /\ text[first].tok = "object")
             THEN SubSeq(text, first, last)
             ELSE text

\* JSON.parse succeeds on a string that is one object and nothing else
JsonParses(str) == Len(str) = 1 /\ str[1].tok = "object"

ParseFailureResultZero(c) == CandidateResult(c, 0, 0, 0, 0, 0, 0, ParsedArrays(FALSE))

\* lines 432-451: the result returned by the catch clause
ParseFailureResult(c) == CandidateResult(c, 50, 50, 50, 50, 50, 50, FallbackArrays)

parseLLMResponse(content, c) ==
  LET jsonStr == JsonMatch(content)
  IN IF ~JsonParses(jsonStr)
     THEN ParseFailureResult(c)
     ELSE LET parsed == jsonStr[1]
              r == ScoreOr0(parsed.scores, "readability")
              e == ScoreOr0(parsed.scores, "extensibility")
              t == ScoreOr0(parsed.scores, "testability")
              o == ScoreOr0(parsed.scores, "originalityScore")
              s == ScoreOr0(parsed.scores, "seniorityFit")
              given == ScoreOr0(parsed.scores, "overallScore")
          IN CandidateResult(c, r, e, t, o, s,
                             IF given = 0 THEN RoundMean5(r + e + t + s + o) ELSE given,
                             ParsedArrays(parsed.hasArrays))

RECURSIVE InsertBeforeEqual(_, _)
InsertBeforeEqual(sorted, x) ==
  IF sorted = <<>> THEN << x >>
  ELSE IF Head(sorted).scores.overallScore > x.scores.overallScore
       THEN << Head(sorted) >> \o InsertBeforeEqual(Tail(sorted), x)
       ELSE << x >> \o sorted

RECURSIVE InsertByScore(_, _)
\* place x behind every element that does not score lower
InsertByScore(sorted, x) ==
  IF sorted = <<>> THEN << x >>
  ELSE IF Head(sorted).scores.overallScore >= x.scores.overallScore
       THEN << Head(sorted) >> \o InsertByScore(Tail(sorted), x)
       ELSE << x >> \o sorted

RECURSIVE SortByOverall(_)
\* results.sort((a, b) => b.scores.overallScore - a.scores.overallScore):
\* descending, stable
SortByOverall(rs) ==
  IF rs = <<>> THEN <<>>
  ELSE InsertByScore(SortByOverall(SubSeq(rs, 1, Len(rs) - 1)), rs[Len(rs)])

Max(a, b) == IF a >= b THEN a ELSE b

Min(a, b) == IF a <= b THEN a ELSE b

\* Math.min(100, Math.max(0, score + Math.floor(Math.random() * 10) - 5))
randomVariation(score, jitter) == Min(100, Max(0, score + jitter))

\* draws of Math.floor(Math.random() * 10) - 5 for the five sub-scores
Jitters == { << -5, -5, -5, -5, -5 >>, << 4, 4, 4, 4, 4 >>, << 0, 3, -2, 4, -5 >> }

MockResult(c, index, j) ==
  LET baseScore == Max(65, 95 - (index * 10))
      r == randomVariation(baseScore, j[1])
      e == randomVariation(baseScore - 2, j[2])
      t == randomVariation(baseScore - 5, j[3])
      o == randomVariation(baseScore, j[4])
      s == randomVariation(baseScore + 3, j[5])
  IN CandidateResult(c, r, e, t, o, s, RoundMean5(r + e + t + o + s), MockArrays)

generateMockResults(cands, js) ==
  SortByOverall([i \in 1..Len(cands) |-> MockResult(cands[i], i - 1, js[i])])

----------------------------------------------------------------------------
(* analyzeCode as a state machine *)

Init ==
  /\ scanPc = "idle"
  /\ scanMode = "none"
  /\ tree = EmptyTree
  /\ stack = <<>>
  /\ fbFiles = <<>>
  /\ codeFiles = <<>>
  /\ supportedFiles = <<>>
  /\ scanResult = NoResult
  /\ toasts = <<>>
  /\ apiKey \in { "", "sk-test-0123456789abcdefghij" }
  /\ selectedModel \in ModelIds
  /\ demoMode \in BOOLEAN
  /\ LlmIdle
  /\ FormIdle

\* a notification about the candidate the loop is at (about: its position in
\* the batch, kept for the properties; the toast itself carries only the name)
CandidateToast(c, title, description, variant) ==
  [title |-> title, description |-> description, variant |-> variant, about |-> idx]

Returned_(list) == [tag |-> "returned", list |-> list]

Threw(message) == [tag |-> "threw", message |-> message]

\* a request of the log (index: the position of its candidate in the batch)
Request(c, model) ==
  [index |-> idx, candidateId |-> c.id, model |-> model, codeSource |-> CodeSource(c),
   reply |-> NoReply, selectedAtReply |-> ""]

AnalyzeCodeDemoAfterKey(batches) ==
  /\ pc = "idle"
  /\ demoMode
  /\ \E cands \in batches, js \in [1..MaxCandidates -> Jitters] :
       /\ candidates' = cands
       /\ outcome' = IF apiKey = "" THEN Threw(MsgNoKey)
                     ELSE Returned_(generateMockResults(cands, js))
  /\ pc' = "done"
  /\ UNCHANGED <<scanVars, toasts, configVars, idx, stage, results, requests, changes>>

\* analyzeCode, lines 57-60: demo mode
AnalyzeCodeDemo(batches) ==
  /\ pc = "idle"
  /\ demoMode
  /\ \E cands \in batches, js \in [1..MaxCandidates -> Jitters] :
       /\ candidates' = cands
       /\ outcome' = Returned_(generateMockResults(cands, js))
  /\ pc' = "done"
  /\ UNCHANGED <<scanVars, toasts, configVars, idx, stage, results, requests, changes>>

AnalyzeCodeNoKeyUnchecked(batches) ==
  /\ pc = "idle"
  /\ ~demoMode
  /\ apiKey = ""
  /\ \E cands \in batches : candidates' = cands
  /\ results' = <<>>
  /\ idx' = 1
  /\ pc' = "loop"
  /\ UNCHANGED <<scanVars, toasts, configVars, stage, requests, outcome, changes>>

\* analyzeCode, lines 62-64: no credential
AnalyzeCodeNoKey(batches) ==
  /\ pc = "idle"
  /\ ~demoMode
  /\ apiKey = ""
  /\ \E cands \in batches : candidates' = cands
  /\ outcome' = Threw(MsgNoKey)
  /\ pc' = "done"
  /\ UNCHANGED <<scanVars, toasts, configVars, idx, stage, results, requests, changes>>

\* analyzeCode, line 66: the loop starts
AnalyzeCodeBegin(batches) ==
  /\ pc = "idle"
  /\ ~demoMode
  /\ apiKey # ""
  /\ \E cands \in batches : candidates' = cands
  /\ results' = <<>>
  /\ idx' = 1
  /\ pc' = "loop"
  /\ UNCHANGED <<scanVars, toasts, configVars, stage, requests, outcome, changes>>

Current == candidates[idx]

\* lines 73-77: continue
SkipCandidate ==
  /\ pc = "loop"
  /\ idx <= Len(candidates)
  /\ NoSource(Current)
  /\ idx' = idx + 1
  /\ UNCHANGED <<scanVars, toasts, configVars, pc, candidates, stage, results, requests, outcome, changes>>

FailCandidateAborts(message, sofar) ==
  /\ toasts' = Append(sofar, CandidateToast(Current, << "Analysis failed for", Current.name >>,
                                            message, "destructive"))
  /\ idx' = Len(candidates) + 1
  /\ pc' = "loop"
  /\ stage' = "none"

\* the outer catch of lines 153-160, then the next iteration
FailCandidate(message, sofar) ==
  /\ toasts' = Append(sofar, CandidateToast(Current, << "Analysis failed for", Current.name >>,
                                            message, "destructive"))
  /\ idx' = idx + 1
  /\ pc' = "loop"
  /\ stage' = "none"

IssueRequestNoAwait(model, nextStage, sofar, reqs) ==
  /\ requests' = Append(reqs, Request(Current, model))
  /\ toasts' = sofar
  /\ stage' = "none"
  /\ pc' = "loop"
  /\ idx' = idx + 1

\* callLLMApi(prompt, model) up to its fetch: without a credential it throws
\* before any request; otherwise the request goes out and the call suspends
IssueRequest(model, nextStage, sofar, reqs) ==
  IF apiKey = ""
  THEN /\ FailCandidate(MsgKeyNotProvided, sofar)
       /\ requests' = reqs
  ELSE /\ requests' = Append(reqs, Request(Current, model))
       /\ toasts' = sofar
       /\ stage' = nextStage
       /\ pc' = "await"
       /\ idx' = idx

\* lines 79-98: the first callLLMApi of a candidate, with the selected model
FirstRequestKeepsFallback ==
  /\ pc = "loop"
  /\ idx <= Len(candidates)
  /\ ~NoSource(Current)
  /\ IssueRequest(IF requests = <<>> THEN selectedModel ELSE requests[Len(requests)].model,
                  "first", toasts, requests)
  /\ UNCHANGED <<scanVars, configVars, candidates, results, outcome, changes>>

FirstRequest ==
  /\ pc = "loop"
  /\ idx <= Len(candidates)
  /\ ~NoSource(Current)
  /\ IssueRequest(selectedModel, "first", toasts, requests)
  /\ UNCHANGED <<scanVars, configVars, candidates, results, outcome, changes>>

Pending == requests[Len(requests)]

Answered(reply) ==
  [requests EXCEPT ![Len(requests)].reply = reply,
                   ![Len(requests)].selectedAtReply = selectedModel]

\* lines 148-152: the awaited call returned content
ReplySuccessFrom(replies) ==
  /\ pc = "await"
  /\ \E reply \in replies :
       LET got == callLLMApi(reply, Pending.model)
       IN /\ got.ok
          /\ requests' = Answered(reply)
          /\ results' = Append(results, parseLLMResponse(got.content, Current))
  /\ idx' = idx + 1
  /\ pc' = "loop"
  /\ stage' = "none"
  /\ UNCHANGED <<scanVars, toasts, configVars, candidates, outcome, changes>>

ReplySuccess == ReplySuccessFrom(Replies)

QuotaOrRateLimit(message) ==
  Includes(message, "quota exceeded") \/ Includes(message, "rate limit")

ModelAccessDeniedNever(message) == FALSE

ModelAccessDenied(message) ==
  Includes(message, "does not exist") \/ Includes(message, "model_not_found")

FallbackToast(description) ==
  [title |-> "Model fallback initiated", description |-> description, variant |-> "default",
   about |-> idx]

FallbackForAnyModel(selected) ==
  CASE selected = "gpt-4o" -> "gpt-4o-mini"
    [] OTHER -> "gpt-3.5-turbo"

\* the if / else if / else on selectedModel of lines 105-137: the model the
\* first failure falls back to, "" when no fallback is left
FallbackFor(selected) ==
  CASE selected = "gpt-4o" -> "gpt-4o-mini"
    [] selected = "gpt-4o-mini" -> "gpt-3.5-turbo"
    [] OTHER -> ""

Retry(model, nextStage, note) ==
  [retry |-> TRUE, model |-> model, stage |-> nextStage, message |-> "", note |-> note]

Throw(message) ==
  [retry |-> FALSE, model |-> "", stage |-> "none", message |-> message, note |-> ""]

OnApiErrorKeepsRetrying(stg, message, selected) ==
  IF QuotaOrRateLimit(message)
  THEN Retry("gpt-3.5-turbo", "last", "Trying GPT-3.5 Turbo as last resort")
  ELSE Throw(message)

\* what the catch clauses of lines 99-146 do with the error of the awaited
\* call: retry with another model, or throw to the outer catch
OnApiError(stg, message, selected) ==
  CASE stg = "first" /\ QuotaOrRateLimit(message) ->
         IF FallbackFor(selected) = "gpt-4o-mini"
         THEN Retry("gpt-4o-mini", "mini", "Quota exceeded for GPT-4o, falling back to GPT-4o Mini")
         ELSE IF FallbackFor(selected) = "gpt-3.5-turbo"
         THEN Retry("gpt-3.5-turbo", "last",
                    "Quota exceeded for GPT-4o Mini, falling back to GPT-3.5 Turbo")
         ELSE Throw(MsgAllQuota)
    [] stg = "first" /\ ~QuotaOrRateLimit(message) /\ ModelAccessDenied(message) ->
         Throw(MsgNoAccessRequested)
    [] stg = "mini" /\ QuotaOrRateLimit(message) ->
         Retry("gpt-3.5-turbo", "last", "Trying GPT-3.5 Turbo as last resort")
    [] OTHER -> Throw(message)

\* the awaited call threw: the fallback ladder or the failure report
ReplyFailureFrom(replies) ==
  /\ pc = "await"
  /\ \E reply \in replies :
       LET got == callLLMApi(reply, Pending.model)
           todo == OnApiError(stage, got.message, selectedModel)
       IN /\ ~got.ok
          /\ IF todo.retry
             THEN IssueRequest(todo.model, todo.stage,
                               Append(toasts, FallbackToast(todo.note)), Answered(reply))
             ELSE /\ FailCandidate(todo.message, toasts)
                  /\ requests' = Answered(reply)
  /\ UNCHANGED <<scanVars, configVars, candidates, results, outcome, changes>>

ReplyFailure == ReplyFailureFrom(Replies)

AnalyzeCodeEndUnchecked ==
  /\ pc = "loop"
  /\ idx > Len(candidates)
  /\ outcome' = Returned_(SortByOverall(results))
  /\ pc' = "done"
  /\ UNCHANGED <<scanVars, toasts, configVars, candidates, idx, stage, results, requests, changes>>

\* lines 163-169: after the loop
AnalyzeCodeEnd ==
  /\ pc = "loop"
  /\ idx > Len(candidates)
  /\ outcome' = IF Len(results) = 0 THEN Threw(MsgNoResults)
                ELSE Returned_(SortByOverall(results))
  /\ pc' = "done"
  /\ UNCHANGED <<scanVars, toasts, configVars, candidates, idx, stage, results, requests, changes>>

\* ModelSelector.handleModelChange while a request of the batch is pending
SetModel ==
  /\ pc = "await"
  /\ changes < MaxConfigChanges
  /\ \E m \in ModelIds \ { selectedModel } :
       /\ selectedModel' = m
       /\ toasts' = Append(toasts, Toast(<< "Model changed to", m >>, "description", "default"))
  /\ changes' = changes + 1
  /\ UNCHANGED <<scanVars, apiKey, demoMode, pc, candidates, idx, stage, results, requests, outcome>>

\* ApiKeyInput.handleClearApiKey while a request of the batch is pending
ClearApiKey ==
  /\ pc = "await"
  /\ changes < MaxConfigChanges
  /\ apiKey' = ""
  /\ toasts' = Append(toasts, Toast("API Key Cleared", "Your API key has been cleared", "default"))
  /\ changes' = changes + 1
  /\ UNCHANGED <<scanVars, selectedModel, demoMode, pc, candidates, idx, stage, results, requests, outcome>>

\* a batch with the configuration left alone while it runs
Next ==
  \/ AnalyzeCodeDemo(Batches) /\ UNCHANGED formVars
  \/ AnalyzeCodeNoKey(Batches) /\ UNCHANGED formVars
  \/ AnalyzeCodeBegin(Batches) /\ UNCHANGED formVars
  \/ SkipCandidate /\ UNCHANGED formVars
  \/ FirstRequest /\ UNCHANGED formVars
  \/ ReplySuccess /\ UNCHANGED formVars
  \/ ReplyFailure /\ UNCHANGED formVars
  \/ AnalyzeCodeEnd /\ UNCHANGED formVars

Spec == Init /\ [][Next]_vars

\* a batch analysed against the endpoint: a key is stored and demo mode is
\* off when analyzeCode is entered
LiveInit == Init /\ apiKey # "" /\ ~demoMode

LiveNext ==
  \/ AnalyzeCodeBegin(Batches) /\ UNCHANGED formVars
  \/ SkipCandidate /\ UNCHANGED formVars
  \/ FirstRequest /\ UNCHANGED formVars
  \/ ReplySuccess /\ UNCHANGED formVars
  \/ ReplyFailure /\ UNCHANGED formVars
  \/ AnalyzeCodeEnd /\ UNCHANGED formVars

LiveSpec == LiveInit /\ [][LiveNext]_vars

\* a batch during which the user changes the configuration
RaceNext ==
  \/ AnalyzeCodeDemo(RaceBatches) /\ UNCHANGED formVars
  \/ AnalyzeCodeNoKey(RaceBatches) /\ UNCHANGED formVars
  \/ AnalyzeCodeBegin(RaceBatches) /\ UNCHANGED formVars
  \/ SkipCandidate /\ UNCHANGED formVars
  \/ FirstRequest /\ UNCHANGED formVars
  \/ ReplySuccess /\ UNCHANGED formVars
  \/ ReplyFailure /\ UNCHANGED formVars
  \/ AnalyzeCodeEnd /\ UNCHANGED formVars
  \/ SetModel /\ UNCHANGED formVars
  \/ ClearApiKey /\ UNCHANGED formVars

RaceSpec == Init /\ [][RaceNext]_vars

----------------------------------------------------------------------------
(* parseLLMResponse applied to one response text *)

\* the five sub-scores of a response: all present, one absent, out of the
\* range 0..100, none present, all zero
SubScores ==
  { [readability |-> 80, extensibility |-> 70, testability |-> 60,
     originalityScore |-> 90, seniorityFit |-> 75],
    [extensibility |-> 85, testability |-> 95, originalityScore |-> 88, seniorityFit |-> 90],
    [readability |-> 150, extensibility |-> -5, testability |-> 100,
     originalityScore |-> 0, seniorityFit |-> 50],
    <<>>,
    [readability |-> 0, extensibility |-> 0, testability |-> 0,
     originalityScore |-> 0, seniorityFit |-> 0] }

\* the overallScore of a response; -1 stands for an absent field
OverallScores == { -1, 0, 82, 91 }

WithOverall(sub, overall) ==
  IF overall = -1 THEN sub ELSE [f \in DOMAIN sub \cup { "overallScore" } |->
                                    IF f = "overallScore" THEN overall ELSE sub[f]]

ParseObjects ==
  { Object(WithOverall(sub, overall), arrays) :
      sub \in SubScores, overall \in OverallScores, arrays \in BOOLEAN }

\* an object alone, wrapped in prose without braces, and next to prose that
\* holds a brace
Wrappings(o) ==
  { << o >>, << Prose, o >>, << o, Prose >>, << Prose, o, Prose >>,
    << CloseBrace, Prose, o >>, << o, Prose, OpenBrace >>,
    << o, Prose, CloseBrace >>, << OpenBrace, Prose, o >> }

\* texts without an object
PlainTexts ==
  { <<>>, << Prose >>, << OpenBrace, Prose, CloseBrace >>, << CloseBrace, Prose, OpenBrace >> }

Texts == PlainTexts \cup UNION { Wrappings(o) : o \in ParseObjects }

ParseCandidates ==
  { << Candidate("1", "Dev1", "https://github.com/ada/app", "", NoLocalFiles) >>,
    << Candidate("1", "", "", "proj", ScannedFiles) >> }

\* a request of one candidate has been answered with a text
ParseInit ==
  /\ scanPc = "idle"
  /\ scanMode = "none"
  /\ tree = EmptyTree
  /\ stack = <<>>
  /\ fbFiles = <<>>
  /\ codeFiles = <<>>
  /\ supportedFiles = <<>>
  /\ scanResult = NoResult
  /\ toasts = <<>>
  /\ apiKey = "sk-test-0123456789abcdefghij"
  /\ selectedModel = "gpt-4o"
  /\ demoMode = FALSE
  /\ pc = "parse"
  /\ candidates \in ParseCandidates
  /\ idx = 1
  /\ stage = "first"
  /\ results = <<>>
  /\ \E text \in Texts :
       requests = << [index |-> 1, candidateId |-> "1", model |-> "gpt-4o",
                      codeSource |-> CodeSource(candidates[1]),
                      reply |-> Reply("ok", 200, "choices", "", text),
                      selectedAtReply |-> "gpt-4o"] >>
  /\ outcome = [tag |-> "pending"]
  /\ changes = 0
  /\ FormIdle

\* lines 151-152: the text is parsed and the result pushed
ParseResponse ==
  /\ pc = "parse"
  /\ results' = Append(results, parseLLMResponse(Pending.reply.content, Current))
  /\ pc' = "parsed"
  /\ UNCHANGED <<scanVars, toasts, configVars, candidates, idx, stage, requests, outcome, changes>>

ParseNext == ParseResponse /\ UNCHANGED formVars

ParseSpec == ParseInit /\ [][ParseNext]_vars

----------------------------------------------------------------------------
(* The assessment form: candidates list, directory picker, key and demo
   controls, submit *)

\* the form is operated at most this many times
MaxFormOps == 3

\* directories picked through the form: one source file and a subdirectory
\* with one, and an empty directory
FormTrees ==
  { Dir("proj", TRUE, << SmallFile(1), Dir("lib", TRUE, << SmallFile(2) >>) >>),
    Dir("proj", TRUE, <<>>) }

\* what the inputs of a candidate card are filled with: a name, a repository
\* URL, a typed path
FormEdits ==
  { [name |-> "Ann"], [githubRepo |-> "https://github.com/ada/app"], [localPath |-> "work/app"] }

\* what the endpoint answers to a request made from the form: a full
\* assessment, an exhausted quota, a rejected key
FormReplies ==
  { Reply("ok", 200, "choices", "", ContentFull),
    Reply("error", 429, "message", RemoteQuota, NoContent),
    Reply("error", 401, "message", RemoteKey, NoContent) }

\* what is typed into the key field: nothing, blanks, a key
TypedKeys == { "", "   ", "sk-test-0123456789abcdefghij" }

\* { ...candidate, ...data }
Merge(c, data) == [f \in DOMAIN c |-> IF f \in DOMAIN data THEN data[f] ELSE c[f]]

\* the list addCandidate hands to setCandidates
addCandidate(list) ==
  Append(list, Candidate(ToString(Len(list) + 1), "", "", "", NoLocalFiles))

\* the list updateCandidate hands to setCandidates
updateCandidate(list, id, data) ==
  [j \in 1..Len(list) |-> IF list[j].id = id THEN Merge(list[j], data) ELSE list[j]]

\* the list removeCandidate hands to setCandidates
removeCandidate(list, id) == SelectSeq(list, LAMBDA c : c.id # id)

\* localPath and localFiles handleLocalFileSelect stores for a manifest
PickedDirectory(analysis) ==
  [localPath |-> analysis.path,
   localFiles |-> [present |-> TRUE, fileCount |-> analysis.fileCount,
                   codeFiles |-> analysis.codeFiles]]

\* onSubmit: some candidate has a repository or a local path
validCandidates(list) ==
  SelectSeq(list, LAMBDA c : (c.githubRepo # "" /\ Trim(c.githubRepo) # "")
                             \/ (c.localPath # "" /\ Trim(c.localPath) # ""))

\* the catch of analyzeCodeAndUpdateResults: title and text of the notification
AnalysisErrorToast(errorMessage) ==
  IF Includes(errorMessage, "quota exceeded") \/ Includes(errorMessage, "billing")
  THEN Toast("API Quota Exceeded",
             "Your OpenAI API quota has been exceeded. Please check your billing status or try using a different model.",
             "destructive")
  ELSE IF Includes(errorMessage, "rate limit")
  THEN Toast("Rate Limit Reached",
             "You've hit the OpenAI rate limit. Please wait a moment and try again.",
             "destructive")
  ELSE IF Includes(errorMessage, "model_not_found") \/ Includes(errorMessage, "doesn't have access")
  THEN Toast("Model Access Issue",
             "Your API key doesn't have access to the selected model. Try selecting a different model below.",
             "destructive")
  ELSE Toast("Analysis Failed", errorMessage, "destructive")

\* the page as mounted: the module state of llmService.ts as loaded, or with
\* a key stored by an earlier visit
FormInit ==
  /\ scanPc = "idle"
  /\ scanMode = "none"
  /\ tree = EmptyTree
  /\ stack = <<>>
  /\ fbFiles = <<>>
  /\ codeFiles = <<>>
  /\ supportedFiles = <<>>
  /\ scanResult = NoResult
  /\ toasts = <<>>
  /\ apiKey \in { "", "sk-test-0123456789abcdefghij" }
  /\ selectedModel = "gpt-4o"
  /\ demoMode = FALSE
  /\ LlmIdle
  /\ FormIdle

\* an event handler runs only between the tasks of the page: analyzeCode is
\* suspended at a fetch or not running, and no resolved picker promise waits
\* for its continuation
BetweenTasks == pc \in { "idle", "await" } /\ scanPc # "done"

\* one operation of the user on the page; the results dialog is modal
UserOp(name) ==
  /\ ~showResults
  /\ BetweenTasks
  /\ ops < MaxFormOps
  /\ ops' = ops + 1
  /\ lastOp' = name

\* "Add Another Candidate"
AddCandidate ==
  /\ UserOp("add")
  /\ Len(formCandidates) < MaxCandidates
  /\ formCandidates' = addCandidate(formCandidates)
  /\ UNCHANGED <<browse, isApiKeySet, isAnalyzing, showResults, assessmentResults>>
  /\ UNCHANGED <<scanVars, toasts, configVars, llmVars>>

\* the remove button of a card, rendered while the list holds more than one
RemoveCandidate ==
  /\ UserOp("remove")
  /\ Len(formCandidates) > 1
  /\ \E i \in 1..Len(formCandidates) :
       formCandidates' = removeCandidate(formCandidates, formCandidates[i].id)
  /\ UNCHANGED <<browse, isApiKeySet, isAnalyzing, showResults, assessmentResults>>
  /\ UNCHANGED <<scanVars, toasts, configVars, llmVars>>

\* onChange of an input of a card
EditCandidate ==
  /\ UserOp("edit")
  /\ \E i \in 1..Len(formCandidates), data \in FormEdits :
       /\ Merge(formCandidates[i], data) # formCandidates[i]
       /\ formCandidates' = updateCandidate(formCandidates, formCandidates[i].id, data)
  /\ UNCHANGED <<browse, isApiKeySet, isAnalyzing, showResults, assessmentResults>>
  /\ UNCHANGED <<scanVars, toasts, configVars, llmVars>>

\* "Browse": handleLocalFileSelect starts; the call keeps the candidate and
\* the updateCandidate of the render it was created in, and with it that
\* render's candidates
BrowseClick ==
  /\ UserOp("browse")
  /\ browse.state = "none"
  /\ scanPc = "idle"
  /\ \E i \in 1..Len(formCandidates) :
       browse' = [state |-> "pending", id |-> formCandidates[i].id, list |-> formCandidates]
  /\ UNCHANGED <<formCandidates, isApiKeySet, isAnalyzing, showResults, assessmentResults>>
  /\ UNCHANGED <<scanVars, toasts, configVars, llmVars>>

\* a step of the picker or of the scan handleLocalFileSelect awaits
ScanStep(step) ==
  /\ browse.state = "pending"
  /\ step
  /\ UNCHANGED formVars

\* the user dismisses the picker
PickerDismissed(step) ==
  /\ browse.state = "pending"
  /\ step
  /\ lastOp' = "dismiss"
  /\ UNCHANGED <<formCandidates, browse, isApiKeySet, isAnalyzing, showResults,
                 assessmentResults, ops>>

\* handleLocalFileSelect after the await: if (analysis) updateCandidate(...)
BrowseSettle ==
  /\ browse.state = "pending"
  /\ scanPc = "done"
  /\ formCandidates' = IF scanResult.tag = "analysis"
                       THEN updateCandidate(browse.list, browse.id, PickedDirectory(scanResult))
                       ELSE formCandidates
  /\ browse' = NoBrowse
  /\ scanPc' = "idle"
  /\ scanMode' = "none"
  /\ tree' = EmptyTree
  /\ stack' = <<>>
  /\ fbFiles' = <<>>
  /\ codeFiles' = <<>>
  /\ supportedFiles' = <<>>
  /\ scanResult' = NoResult
  /\ UNCHANGED <<isApiKeySet, isAnalyzing, showResults, assessmentResults, ops, lastOp>>
  /\ UNCHANGED <<toasts, configVars, llmVars>>

\* "Set API Key"
HandleSetApiKey ==
  /\ UserOp("setKey")
  /\ ~isApiKeySet
  /\ \E typed \in TypedKeys :
       IF Trim(typed) = ""
       THEN /\ toasts' = Append(toasts, Toast("Invalid API Key", "Please enter a valid API key",
                                              "destructive"))
            /\ UNCHANGED <<apiKey, demoMode, isApiKeySet>>
       ELSE /\ apiKey' = typed
            /\ isApiKeySet' = TRUE
            /\ demoMode' = FALSE
            /\ toasts' = Append(toasts, Toast("API Key Set",
                                              "Your API key has been set successfully", "default"))
  /\ UNCHANGED <<formCandidates, browse, isAnalyzing, showResults, assessmentResults>>
  /\ UNCHANGED <<scanVars, selectedModel, llmVars>>

\* "Clear" (rendered while a key is set)
HandleClearApiKey ==
  /\ UserOp("clearKey")
  /\ isApiKeySet
  /\ apiKey' = ""
  /\ isApiKeySet' = FALSE
  /\ toasts' = Append(toasts, Toast("API Key Cleared", "Your API key has been cleared", "default"))
  /\ UNCHANGED <<formCandidates, browse, isAnalyzing, showResults, assessmentResults>>
  /\ UNCHANGED <<scanVars, selectedModel, demoMode, llmVars>>

\* the demo switch (rendered while no key is set)
HandleToggleDemo ==
  /\ UserOp("toggleDemo")
  /\ ~isApiKeySet
  /\ demoMode' = ~demoMode
  /\ toasts' = Append(toasts,
                      IF ~demoMode
                      THEN Toast("Demo Mode Enabled",
                                 "Using mock analysis data for demonstration purposes", "default")
                      ELSE Toast("Demo Mode Disabled",
                                 "Using the actual OpenAI API for analysis", "default"))
  /\ UNCHANGED <<formCandidates, browse, isApiKeySet, isAnalyzing, showResults, assessmentResults>>
  /\ UNCHANGED <<scanVars, apiKey, selectedModel, llmVars>>

\* the model select
HandleModelChange ==
  /\ UserOp("model")
  /\ \E m \in ModelIds \ { selectedModel } :
       /\ selectedModel' = m
       /\ toasts' = Append(toasts, Toast(<< "Model changed to", m >>, "description", "default"))
  /\ UNCHANGED <<formCandidates, browse, isApiKeySet, isAnalyzing, showResults, assessmentResults>>
  /\ UNCHANGED <<scanVars, apiKey, demoMode, llmVars>>

\* analyzeCode(candidates, assessmentInfo) is entered
AnalyzeCodeCall(batches) ==
  \/ AnalyzeCodeDemo(batches)
  \/ AnalyzeCodeNoKey(batches)
  \/ AnalyzeCodeBegin(batches)

\* the user presses "Analyze Code" on a form whose fields validate: nothing
\* happens while the button is disabled; otherwise onSubmit runs, and
\* analyzeCodeAndUpdateResults up to its await
Submit ==
  /\ UserOp("submit")
  /\ IF isAnalyzing \/ ~isApiKeySet
     THEN UNCHANGED <<isAnalyzing, scanVars, toasts, configVars, llmVars>>
     ELSE IF Len(validCandidates(formCandidates)) = 0
     THEN /\ toasts' = Append(toasts, Toast("Missing Code Source",
                                "At least one candidate must have a GitHub repo or local path.",
                                "destructive"))
          /\ UNCHANGED <<isAnalyzing, scanVars, configVars, llmVars>>
     ELSE IF apiKey = ""
     THEN /\ toasts' = Append(toasts, Toast("API Key Required",
                                "Please set your OpenAI API key to analyze code", "destructive"))
          /\ UNCHANGED <<isAnalyzing, scanVars, configVars, llmVars>>
     ELSE /\ isAnalyzing' = TRUE
          /\ AnalyzeCodeCall({ formCandidates })
  /\ UNCHANGED <<formCandidates, browse, isApiKeySet, showResults, assessmentResults>>

\* a step of analyzeCode while the submit handler awaits it
AnalysisStep(step) ==
  /\ isAnalyzing
  /\ step
  /\ UNCHANGED formVars

\* analyzeCodeAndUpdateResults after the await: the results dialog opens, or
\* the catch reports the error; finally isAnalyzing is reset
AnalysisSettle ==
  /\ isAnalyzing
  /\ pc = "done"
  /\ IF outcome.tag = "returned"
     THEN /\ assessmentResults' = outcome.list
          /\ showResults' = TRUE
          /\ toasts' = Append(toasts, Toast("Analysis Complete",
                                            << Len(candidates), "candidate code submissions analyzed." >>,
                                            "default"))
     ELSE /\ toasts' = Append(toasts, AnalysisErrorToast(outcome.message))
          /\ UNCHANGED <<assessmentResults, showResults>>
  /\ isAnalyzing' = FALSE
  /\ pc' = "idle"
  /\ candidates' = <<>>
  /\ idx' = 0
  /\ stage' = "none"
  /\ results' = <<>>
  /\ requests' = <<>>
  /\ outcome' = [tag |-> "pending"]
  /\ UNCHANGED <<formCandidates, browse, isApiKeySet, ops, lastOp>>
  /\ UNCHANGED <<scanVars, configVars, changes>>

\* the results dialog is closed
CloseResults ==
  /\ showResults
  /\ BetweenTasks
  /\ ops < MaxFormOps
  /\ ops' = ops + 1
  /\ lastOp' = "close"
  /\ showResults' = FALSE
  /\ UNCHANGED <<formCandidates, browse, isApiKeySet, isAnalyzing, assessmentResults>>
  /\ UNCHANGED <<scanVars, toasts, configVars, llmVars>>

FormNext ==
  \/ AddCandidate
  \/ RemoveCandidate
  \/ EditCandidate
  \/ BrowseClick
  \/ ScanStep(SelectDirectoryFrom(FormTrees))
  \/ PickerDismissed(SelectDirectoryAbort)
  \/ ScanStep(SelectDirectoryError)
  \/ ScanStep(WalkFile)
  \/ ScanStep(WalkDirectory)
  \/ ScanStep(WalkReturn)
  \/ ScanStep(AnalyzeDirectoryDone)
  \/ ScanStep(FallbackChangeFrom(FormTrees))
  \/ PickerDismissed(FallbackCancel)
  \/ ScanStep(FallbackFile)
  \/ ScanStep(FallbackDone)
  \/ BrowseSettle
  \/ HandleSetApiKey
  \/ HandleClearApiKey
  \/ HandleToggleDemo
  \/ HandleModelChange
  \/ Submit
  \/ AnalysisStep(SkipCandidate)
  \/ AnalysisStep(FirstRequest)
  \/ AnalysisStep(ReplySuccessFrom(FormReplies))
  \/ AnalysisStep(ReplyFailureFrom(FormReplies))
  \/ AnalysisStep(AnalyzeCodeEnd)
  \/ AnalysisSettle
  \/ CloseResults

FormSpec == FormInit /\ [][FormNext]_vars

----------------------------------------------------------------------------
(* Scanner: what the claims speak about *)

\* the deny-list as the specification states it
DenyListed == { "node_modules", ".git", "dist", "build", ".next", "coverage", "__pycache__" }

RECURSIVE TreeEntries(_, _, _)
\* every entry below a directory, depth first, with its relative path and
\* whether a directory on its path is deny-listed
TreeEntries(es, prefix, hidden) ==
  IF es = <<>> THEN <<>>
  ELSE IF Len(es) = 1
  THEN LET e == es[1]
           p == FullPath(prefix, EntryName(e))
       IN << [path |-> p, kind |-> e.kind, name |-> e.name, hidden |-> hidden,
              size |-> IF e.kind = "file" THEN e.size ELSE 0,
              readable |-> IF e.kind = "file" THEN e.readable ELSE e.iterable] >>
          \o (IF e.kind = "directory" /\ e.iterable
              THEN TreeEntries(e.entries, p, hidden \/ EntryName(e) \in DenyListed)
              ELSE <<>>)
  ELSE LET half == Len(es) \div 2
       IN TreeEntries(SubSeq(es, 1, half), prefix, hidden)
          \o TreeEntries(SubSeq(es, half + 1, Len(es)), prefix, hidden)

EntriesOf(t) == TreeEntries(t.entries, "", FALSE)

Range(s) == { s[i] : i \in 1..Len(s) }

Paths(cf) == { cf[i].path : i \in 1..Len(cf) }

Matching(r) == r.kind = "file" /\ isCodeFile(r.name)

\* a tree of the shape of the 150-file example: only matching files of at most
\* 1 KiB, all readable, every directory listable and none deny-listed
PlainTree(t) ==
  \A r \in Range(EntriesOf(t)) :
     /\ r.readable
     /\ ~r.hidden
     /\ r.kind = "file" => Matching(r) /\ r.size <= 1024
     /\ r.kind = "directory" => NameStr(r.name) \notin DenyListed

NumFiles(t) == Cardinality({ r \in Range(EntriesOf(t)) : r.kind = "file" })

Returned == scanPc = "done" /\ scanResult.tag = "analysis"

\* C1: in every state of a scan, native or fallback, files holds at most 100
\* entries and at most as many as discoveredPaths; the returned manifest
\* satisfies the same and its totalFileCount is the length of discoveredPaths.
C1_ManifestBounds ==
  /\ Len(codeFiles) <= 100
  /\ Len(codeFiles) <= Len(supportedFiles)
  /\ Returned =>
       /\ Len(scanResult.codeFiles) <= 100
       /\ Len(scanResult.codeFiles) <= Len(scanResult.supportedFiles)
       /\ scanResult.fileCount = Len(scanResult.supportedFiles)
       /\ scanResult.codeFiles = codeFiles
       /\ scanResult.supportedFiles = supportedFiles

\* a native scan returned a manifest holding 100 files out of more discovered
C1_Witness ==
  /\ Returned
  /\ scanMode = "native"
  /\ Len(scanResult.codeFiles) = 100
  /\ scanResult.fileCount > 100

\* C2: a scan of a tree of N > 100 matching, small, readable files outside
\* deny-listed directories returns files.length = 100 and
\* discoveredPaths.length = N.
C2_CapKeepsDiscovered ==
  (Returned /\ NumFiles(tree) > 100 /\ PlainTree(tree)) =>
     /\ Len(scanResult.codeFiles) = 100
     /\ Len(scanResult.supportedFiles) = NumFiles(tree)

\* C3 as stated: in the manifest of a native scan, no matching file larger
\* than 1 MiB is in files, every such file's path is in discoveredPaths, and a
\* discovered readable file of exactly 1 MiB is in files.
C3_OversizeAlwaysDiscovered ==
  (Returned /\ scanMode = "native") =>
     \A r \in Range(EntriesOf(tree)) :
        /\ (Matching(r) /\ r.size > 1024 * 1024) =>
              /\ r.path \notin Paths(scanResult.codeFiles)
              /\ r.path \in Range(scanResult.supportedFiles)
        /\ (Matching(r) /\ r.size = 1024 * 1024 /\ r.readable
              /\ r.path \in Range(scanResult.supportedFiles)) =>
              r.path \in Paths(scanResult.codeFiles)

\* the walk reaches the i-th entry: no directory on its path is deny-listed
\* and fewer than 100 files were read before it
ReachedByWalk(es, i) ==
  /\ ~es[i].hidden
  /\ Cardinality({ j \in 1..(i - 1) :
                     /\ Matching(es[j])
                     /\ ~es[j].hidden
                     /\ es[j].readable
                     /\ es[j].size <= 1024 * 1024 }) < 100

\* C3 amended: in every state of a native scan no matching file larger than
\* 1 MiB is in files; in the returned manifest the path of such a file is in
\* discoveredPaths whenever the walk reaches the file, and a discovered
\* readable file of exactly 1 MiB is in files.
C3_OversizeNeverRead ==
  scanMode = "native" =>
     LET es == EntriesOf(tree)
     IN \A i \in 1..Len(es) :
          /\ (Matching(es[i]) /\ es[i].size > 1024 * 1024) =>
                /\ es[i].path \notin Paths(codeFiles)
                /\ (Returned /\ ReachedByWalk(es, i)) =>
                      es[i].path \in Range(scanResult.supportedFiles)
          /\ (Returned /\ Matching(es[i]) /\ es[i].size = 1024 * 1024 /\ es[i].readable
                /\ es[i].path \in Range(scanResult.supportedFiles)) =>
                es[i].path \in Paths(scanResult.codeFiles)

\* a native scan returned a manifest that lists big.py as discovered and
\* holds the 1 MiB file
C3_Witness ==
  /\ Returned
  /\ scanMode = "native"
  /\ "big.py" \in Range(scanResult.supportedFiles)
  /\ "big.py" \notin Paths(scanResult.codeFiles)
  /\ "Edge.TS" \in Paths(scanResult.codeFiles)

\* the paths of the matching files that no deny-listed directory hides
VisiblePaths(t) ==
  LET vis == SelectSeq(EntriesOf(t), LAMBDA r : Matching(r) /\ ~r.hidden)
  IN [i \in 1..Len(vis) |-> vis[i].path]

\* C4: in every state of a native scan no call of the walk is running on a
\* deny-listed directory or below one and no file below one is in files or in
\* discoveredPaths; when the walk ends below the cap, discoveredPaths is
\* exactly the matching files outside deny-listed directories, in walk order
\* (the entries beside a deny-listed directory are processed).
C4_DenyListedNeverEntered ==
  scanMode = "native" =>
     LET es == EntriesOf(tree)
     IN /\ \A r \in Range(es) :
             /\ r.hidden =>
                  /\ r.path \notin Range(supportedFiles)
                  /\ r.path \notin Paths(codeFiles)
             /\ (r.kind = "directory" /\ (r.hidden \/ NameStr(r.name) \in DenyListed)) =>
                  \A k \in 1..Len(stack) : stack[k].path # r.path
        /\ (Returned /\ Len(codeFiles) < 100) =>
             scanResult.supportedFiles = VisiblePaths(tree)

\* a native scan returned from a tree in which a deny-listed directory two
\* levels down holds a source file and is followed by a sibling that was
\* discovered
C4_Witness ==
  /\ Returned
  /\ scanMode = "native"
  /\ \E r \in Range(EntriesOf(tree)) : r.path = "src/build/big.py" /\ r.hidden
  /\ scanResult.supportedFiles = << "src/after.py" >>

\* the fallback handler, run step by step, resolves with what FallbackManifest
\* computes for the picked directory
FallbackAgrees ==
  (scanMode = "fallback" /\ scanPc = "done") => scanResult = FallbackManifest(tree)

\* no file of the tree lies under a deny-listed directory
NoneDenyListed(t) == \A r \in Range(EntriesOf(t)) : r.kind = "file" => ~r.hidden

\* every file of the tree can be read and every directory can be listed
AllReadsSucceed(t) == \A r \in Range(EntriesOf(t)) : r.readable

\* C21: for a picked directory that holds files, none of them under a
\* deny-listed directory, with every read succeeding, the manifest of the
\* native scan has the same totalFileCount and the same files.length as the
\* manifest the fallback builds from the same files.
C21_FallbackEqualsNative ==
  (Returned /\ scanMode = "native" /\ FileList(tree) # <<>>
     /\ NoneDenyListed(tree) /\ AllReadsSucceed(tree)) =>
     LET fallback == FallbackManifest(tree)
     IN /\ fallback.tag = "analysis"
        /\ fallback.fileCount = scanResult.fileCount
        /\ Len(fallback.codeFiles) = Len(scanResult.codeFiles)

\* the part of C21 that the code keeps: the two manifests hold the same
\* number of files
C21_SameFilesLength ==
  (Returned /\ scanMode = "native" /\ FileList(tree) # <<>>
     /\ NoneDenyListed(tree) /\ AllReadsSucceed(tree)) =>
     LET fallback == FallbackManifest(tree)
     IN /\ fallback.tag = "analysis"
        /\ Len(fallback.codeFiles) = Len(scanResult.codeFiles)

\* a step of the native scan taken with 100 files read
StepAtCap == scanMode = "native" /\ scanPc = "walking" /\ Len(codeFiles) >= 100

\* C25: files never holds more than 100 entries, and in the native scan a
\* step taken once files holds 100 entries reads no file, records no path
\* and enters no directory: at every depth it only ends the innermost
\* running call, its remaining entries unvisited, or, with no call left,
\* returns the manifest.
C25_WalkStopsAtCap ==
  /\ [](Len(codeFiles) <= 100)
  /\ [][StepAtCap =>
          /\ codeFiles' = codeFiles
          /\ supportedFiles' = supportedFiles
          /\ IF stack # <<>>
             THEN stack' = SubSeq(stack, 1, Len(stack) - 1) /\ scanPc' = "walking"
             ELSE stack' = stack /\ scanPc' = "done" /\ scanResult'.codeFiles = codeFiles]_vars

\* the walk read its 100th file two levels down, ended that call and stands
\* in the enclosing call with an entry it has not visited
C25_Witness ==
  /\ StepAtCap
  /\ Len(tree.entries) = 2
  /\ Len(stack) = 1
  /\ Len(Top.entries) = 1
  /\ Len(supportedFiles) = 100

\* the step of the native walk that stands on a matching file whose getFile()
\* or text() fails
FailingFileStep ==
  /\ scanMode = "native"
  /\ scanPc = "walking"
  /\ stack # <<>>
  /\ Top.entries # <<>>
  /\ Len(codeFiles) < 100
  /\ Head(Top.entries).kind = "file"
  /\ isCodeFile(Head(Top.entries).name)
  /\ ~Head(Top.entries).readable

\* C26: the step of the native walk on a matching file that cannot be read
\* records the path, adds nothing to files, raises no notification and
\* leaves the rest of the directory and every enclosing call in place; a
\* native scan that got a directory always returns a manifest, in which the
\* path of every such file the walk reached is discovered and not in files,
\* and below the cap every matching file outside deny-listed directories,
\* those behind the failing one included, is discovered.
C26_ReadFailureAbsorbed ==
  /\ [][FailingFileStep =>
          /\ supportedFiles' =
               Append(supportedFiles, FullPath(Top.path, EntryName(Head(Top.entries))))
          /\ codeFiles' = codeFiles
          /\ toasts' = toasts
          /\ scanPc' = "walking"
          /\ stack' = [stack EXCEPT ![Len(stack)].entries = Tail(@)]]_vars
  /\ []((scanMode = "native" /\ scanPc = "done" /\ tree # EmptyTree) =>
          /\ scanResult.tag = "analysis"
          /\ LET es == EntriesOf(tree)
             IN \A i \in 1..Len(es) :
                   (Matching(es[i]) /\ ~es[i].readable) =>
                      /\ es[i].path \notin Paths(scanResult.codeFiles)
                      /\ ReachedByWalk(es, i) => es[i].path \in Range(scanResult.supportedFiles)
          /\ Len(codeFiles) < 100 => scanResult.supportedFiles = VisiblePaths(tree))

\* a native scan returned a manifest for a tree whose first directory holds a
\* file that cannot be read: the file is discovered and not in files, and
\* the entry behind the directory was read
C26_Witness ==
  /\ Returned
  /\ scanMode = "native"
  /\ scanResult.supportedFiles = << "src/bad.js", "a.py" >>
  /\ Paths(scanResult.codeFiles) = { "a.py" }

----------------------------------------------------------------------------
(* Orchestrator: what the claims speak about *)

\* the positions in the request log of the requests made for the candidate
\* at position i of the batch
RequestsOf(i) == { k \in 1..Len(requests) : requests[k].index = i }

\* the request is the first one made for its candidate
IsFirstRequest(k) == \A j \in RequestsOf(requests[k].index) : j >= k

\* the remote endpoint answered with a quota-exceeded failure (error body
\* whose message holds the quota phrase) or a rate-limit failure (status 429)
QuotaOrRateReply(reply) ==
  /\ reply.kind = "error"
  /\ \/ reply.status = 429
     \/ reply.body = "message" /\ Includes(reply.message, "You exceeded your current quota")

\* the remote endpoint answered with a model-access failure
ModelAccessReply(reply) ==
  /\ reply.kind = "error"
  /\ reply.body = "message"
  /\ Includes(reply.message, "does not exist") \/ Includes(reply.message, "model_not_found")

AboutCandidate(i) ==
  { n \in 1..Len(toasts) : "about" \in DOMAIN toasts[n] /\ toasts[n].about = i }

\* the failure notifications raised for the candidate at position i
FailureToasts(i) ==
  { n \in 1..Len(toasts) :
      /\ toasts[n].variant = "destructive"
      /\ "about" \in DOMAIN toasts[n]
      /\ toasts[n].about = i }

\* the fallback notifications raised for the candidate at position i
FallbackToasts(i) == { n \in AboutCandidate(i) : toasts[n].variant = "default" }

\* the endpoint answered with status ok and a body that holds content
OkReply(reply) == reply.kind = "ok" /\ reply.body = "choices"

\* the request is the last one made for its candidate
IsLastRequest(k) ==
  \A m \in (k + 1)..Len(requests) : requests[m].index # requests[k].index

\* the candidates whose last request was answered with content
Succeeded ==
  { requests[k].index :
      k \in { j \in 1..Len(requests) : OkReply(requests[j].reply) /\ IsLastRequest(j) } }

Ladder(model) == CHOOSE i \in 1..Len(AVAILABLE_MODELS) : AVAILABLE_MODELS[i] = model

\* C5: whenever a request sent to gpt-4o or gpt-4o-mini was answered with a
\* quota-exceeded or rate-limit failure, the next request in the log is for
\* the same candidate and goes to the next cheaper model.
C5_QuotaFailureFallsBack ==
  \A k \in 1..Len(requests) :
     (QuotaOrRateReply(requests[k].reply) /\ requests[k].model \in { "gpt-4o", "gpt-4o-mini" }) =>
        /\ k < Len(requests)
        /\ requests[k + 1].index = requests[k].index
        /\ Ladder(requests[k + 1].model) = Ladder(requests[k].model) + 1

\* C6: for a candidate whose first request went to the selected gpt-4o and
\* was answered with a quota or rate-limit failure, exactly one request goes
\* to gpt-4o-mini, a request to gpt-3.5-turbo follows only a gpt-4o-mini
\* request answered with such a failure, and the candidate's requests go
\* strictly down the ladder.
C6_LadderFromDefault ==
  \A k \in 1..Len(requests) :
     (/\ IsFirstRequest(k)
      /\ requests[k].model = "gpt-4o"
      /\ QuotaOrRateReply(requests[k].reply)) =>
        LET mine == RequestsOf(requests[k].index)
        IN /\ Cardinality({ j \in mine : requests[j].model = "gpt-4o-mini" }) = 1
           /\ \A j \in mine :
                requests[j].model = "gpt-3.5-turbo" =>
                   /\ j - 1 \in mine
                   /\ requests[j - 1].model = "gpt-4o-mini"
                   /\ QuotaOrRateReply(requests[j - 1].reply)
           /\ \A i, j \in mine : i < j => Ladder(requests[i].model) < Ladder(requests[j].model)

\* C7: a candidate's first request that went to gpt-3.5-turbo, the selected
\* model also when its failure is handled, and was answered with a quota or
\* rate-limit failure is the candidate's only request, and the candidate is
\* reported as failed by one notification.
C7_CheapestTierNoRetry ==
  \A k \in 1..Len(requests) :
     (/\ IsFirstRequest(k)
      /\ requests[k].model = "gpt-3.5-turbo"
      /\ requests[k].selectedAtReply = "gpt-3.5-turbo"
      /\ QuotaOrRateReply(requests[k].reply)) =>
        /\ RequestsOf(requests[k].index) = { k }
        /\ Cardinality(FailureToasts(requests[k].index)) = 1
        /\ FallbackToasts(requests[k].index) = {}
        /\ requests[k].index \notin Succeeded
        /\ Len(results) = Cardinality(Succeeded)

\* the orchestrator found no fallback left for a failure it classified as a
\* quota failure on gpt-3.5-turbo
C7_Witness ==
  \E k \in 1..Len(requests) :
     /\ requests[k].model = "gpt-3.5-turbo"
     /\ requests[k].selectedAtReply = "gpt-3.5-turbo"
     /\ IsFirstRequest(k)
     /\ QuotaOrRateReply(requests[k].reply)
     /\ \E n \in FailureToasts(requests[k].index) : toasts[n].description = MsgAllQuota

\* C8: a candidate's first request that was answered with a model-access
\* failure is the candidate's only request, no fallback is announced, and the
\* one failure notification carries the orchestrator's model-access message,
\* which is neither a quota message nor the remote text.
C8_ModelAccessNotRetried ==
  \A k \in 1..Len(requests) :
     (IsFirstRequest(k) /\ ModelAccessReply(requests[k].reply)) =>
        LET cid == requests[k].index
        IN /\ RequestsOf(cid) = { k }
           /\ FallbackToasts(cid) = {}
           /\ Cardinality(FailureToasts(cid)) = 1
           /\ \A n \in FailureToasts(cid) :
                /\ toasts[n].description = MsgNoAccessRequested
                /\ toasts[n].description \notin { MsgAllQuota, MsgQuotaFriendly, requests[k].reply.message }

\* a request on the default model was answered with "does not exist" and the
\* candidate was reported
C8_Witness ==
  \E k \in 1..Len(requests) :
     /\ IsFirstRequest(k)
     /\ requests[k].model = "gpt-4o"
     /\ ModelAccessReply(requests[k].reply)
     /\ FailureToasts(requests[k].index) # {}

\* C9: once analyzeCode was called with no credential and demo mode off, the
\* call has failed with the no-credential error, no request was issued, no
\* notification was raised and no result was produced.
C9_NoCredentialFailsFirst ==
  (pc # "idle" /\ apiKey = "" /\ ~demoMode) =>
     /\ pc = "done"
     /\ outcome = Threw(MsgNoKey)
     /\ requests = <<>>
     /\ toasts = <<>>
     /\ results = <<>>

\* the call failed for a batch that holds candidates with a code source
C9_Witness ==
  /\ outcome = Threw(MsgNoKey)
  /\ Len(candidates) >= 2
  /\ \A i \in 1..Len(candidates) : ~NoSource(candidates[i])

\* a candidate was skipped (no code source) or failed (reported to the user)
SkippedOrFailed(i) == NoSource(candidates[i]) \/ FailureToasts(i) # {}

\* C10: a completed call with a credential and demo mode off failed with the
\* no-results error exactly when every candidate was skipped or failed, and
\* otherwise returned a non-empty list.
C10_NoResultsIffNoneSucceeded ==
  (pc = "done" /\ apiKey # "" /\ ~demoMode) =>
     LET none == \A i \in 1..Len(candidates) : SkippedOrFailed(i)
     IN /\ outcome = Threw(MsgNoResults) <=> none
        /\ ~none => outcome.tag = "returned" /\ Len(outcome.list) >= 1
        /\ (Len(candidates) = 1 /\ candidates[1].githubRepo = "" /\ candidates[1].localPath = "")
             => outcome = Threw(MsgNoResults)

\* the call failed with no results for a batch of a skipped and a failed
\* candidate
C10_Witness ==
  /\ pc = "done"
  /\ outcome = Threw(MsgNoResults)
  /\ Len(candidates) = 2
  /\ NoSource(candidates[1])
  /\ FailureToasts(2) # {}

\* both source fields are empty or hold only white space
BothBlank(c) == Trim(c.githubRepo) = "" /\ Trim(c.localPath) = ""

\* the last request made for the candidate at position i
LastRequest(i) ==
  CHOOSE k \in 1..Len(requests) : requests[k].index = i /\ IsLastRequest(k)

\* the result analyzeCode is to build for a candidate that succeeded
ResultFor(i) ==
  parseLLMResponse(requests[LastRequest(i)].reply.content, candidates[i])

\* one result for each candidate that succeeded, in batch order
ExpectedResults ==
  LET succeeded == Succeeded
      order == SelectSeq([i \in 1..Len(candidates) |-> i], LAMBDA i : i \in succeeded)
  IN [j \in 1..Len(order) |-> ResultFor(order[j])]

\* C11 as stated, for every mode: a candidate with no code source gets no
\* request and no notification, and a returned list has no result with its
\* candidateId.
C11_SkippedHasNoResultId ==
  \A i \in 1..Len(candidates) :
     BothBlank(candidates[i]) =>
        /\ RequestsOf(i) = {}
        /\ AboutCandidate(i) = {}
        /\ outcome.tag = "returned" =>
             \A r \in Range(outcome.list) : r.candidateId # candidates[i].id

\* C11 (amended): with demo mode off, a candidate with no code source gets no
\* request and no notification, the results are exactly those built from the
\* candidates that succeeded (none from it), and a returned result carries
\* its candidateId only when another candidate with the same id succeeded.
C11_SkippedLive ==
  ~demoMode =>
    \A i \in 1..Len(candidates) :
       BothBlank(candidates[i]) =>
          /\ RequestsOf(i) = {}
          /\ AboutCandidate(i) = {}
          /\ i \notin Succeeded
          /\ results = ExpectedResults
          /\ outcome.tag = "returned" =>
               \A r \in Range(outcome.list) :
                  r.candidateId = candidates[i].id =>
                     \E j \in Succeeded : j # i /\ candidates[j].id = candidates[i].id

\* a batch of a candidate with blanks only in its fields and an analysed
\* candidate has returned
C11_Witness ==
  /\ ~demoMode
  /\ outcome.tag = "returned"
  /\ Len(candidates) = 2
  /\ candidates[1].localPath = "   "
  /\ BothBlank(candidates[1])
  /\ Succeeded = { 2 }

Count(seq, x) == Cardinality({ k \in 1..Len(seq) : seq[k] = x })

IsPermutation(a, b) ==
  /\ Len(a) = Len(b)
  /\ \A k \in 1..Len(b) : Count(a, b[k]) = Count(b, b[k])

\* the live call got past the credential test
LiveBatch == pc \in { "loop", "await", "done" } /\ ~demoMode /\ apiKey # ""

\* C12 as stated: in a live batch a failure does not stop the loop, the
\* results are one per succeeded candidate, and each failed candidate has
\* produced one notification.
C12_OneNotificationPerFailure ==
  LiveBatch =>
     /\ \A i \in 1..Len(candidates) :
          i < idx =>
             /\ ~BothBlank(candidates[i]) => RequestsOf(i) # {}
             /\ (~BothBlank(candidates[i]) /\ i \notin Succeeded) =>
                  Cardinality(AboutCandidate(i)) = 1
     /\ pc = "done" => idx = Len(candidates) + 1
     /\ results = ExpectedResults

\* C12 (amended): in a live batch every candidate the loop has passed was skipped or
\* attempted, also behind a failed one; the loop ends only behind the last
\* candidate; the results are exactly one per succeeded candidate, the
\* returned list is a permutation of them; a failed candidate has exactly
\* one failure notification, a succeeded or skipped one has none.
C12_FailureDoesNotStopBatch ==
  LiveBatch =>
     /\ LET succeeded == Succeeded
        IN \A i \in 1..Len(candidates) :
              i < idx =>
                 /\ ~BothBlank(candidates[i]) => RequestsOf(i) # {}
                 /\ Cardinality(FailureToasts(i)) =
                      IF BothBlank(candidates[i]) \/ i \in succeeded THEN 0 ELSE 1
     /\ pc = "done" => idx = Len(candidates) + 1
     /\ results = ExpectedResults
     /\ outcome.tag = "returned" => IsPermutation(outcome.list, results)

\* a batch whose first candidate failed and whose second succeeded returned
C12_Witness ==
  /\ LiveBatch
  /\ pc = "done"
  /\ Len(candidates) = 2
  /\ FailureToasts(1) # {}
  /\ Succeeded = { 2 }
  /\ outcome.tag = "returned"
  /\ Len(outcome.list) = 1

\* the objects of the text the parsed request was answered with
ObjectsOfText == { i \in 1..Len(requests[1].reply.content) : requests[1].reply.content[i].tok = "object" }

\* the value of a field of a scores object, 0 when absent or falsy
FieldOr0(scores, f) == IF f \in DOMAIN scores /\ scores[f] # 0 THEN scores[f] ELSE 0

MeanOfFive(scores) ==
  LET sum == FieldOr0(scores, "readability") + FieldOr0(scores, "extensibility")
             + FieldOr0(scores, "testability") + FieldOr0(scores, "originalityScore")
             + FieldOr0(scores, "seniorityFit")
  IN IF sum % 5 = 0 THEN sum \div 5
     ELSE IF 2 * (sum % 5) >= 5 THEN (sum \div 5) + 1 ELSE sum \div 5

\* C13: when the parsed text holds exactly one JSON object, the result's
\* overallScore is the object's overallScore if that is truthy and else the
\* rounded mean of the defaulted sub-scores; 80, 70, 60, 90, 75 give 75.
C13_OverallScore ==
  (pc = "parsed" /\ Cardinality(ObjectsOfText) = 1) =>
     LET o == requests[1].reply.content[CHOOSE i \in ObjectsOfText : TRUE]
         got == results[1].scores.overallScore
     IN /\ got = IF FieldOr0(o.scores, "overallScore") # 0 THEN o.scores.overallScore
                 ELSE MeanOfFive(o.scores)
        /\ (o.scores = [readability |-> 80, extensibility |-> 70, testability |-> 60,
                        originalityScore |-> 90, seniorityFit |-> 75]) => got = 75

\* the fixed neutral result of a candidate
NeutralResult(c) ==
  [candidateId |-> c.id,
   candidateName |-> IF c.name = "" THEN "Candidate " \o c.id ELSE c.name,
   scores |-> [readability |-> 50, extensibility |-> 50, testability |-> 50,
               originalityScore |-> 50, seniorityFit |-> 50, overallScore |-> 50],
   feedback |-> << "Failed to parse LLM analysis results" >>,
   strengths |-> << "Could not determine strengths" >>,
   areasToImprove |-> << "Could not determine areas for improvement" >>]

\* the request was answered with content that holds no JSON object
AnsweredWithoutJson(k) ==
  /\ requests[k].reply.kind = "ok"
  /\ requests[k].reply.body = "choices"
  /\ \A n \in 1..Len(requests[k].reply.content) : requests[k].reply.content[n].tok # "object"

\* C14: a candidate whose request was answered with content that is not
\* JSON has succeeded, its result in the result list is the neutral default,
\* no failure notification is raised for it, and the completed call returns
\* a list that holds this result.
C14_UnparsableGivesNeutral ==
  \A k \in 1..Len(requests) :
     AnsweredWithoutJson(k) =>
        LET i == requests[k].index
            place == Cardinality({ j \in Succeeded : j <= i })
        IN /\ i \in Succeeded
           /\ RequestsOf(i) \cap { j \in 1..Len(requests) : j > k } = {}
           /\ results[place] = NeutralResult(candidates[i])
           /\ FailureToasts(i) = {}
           /\ pc = "done" =>
                /\ outcome.tag = "returned"
                /\ \E n \in 1..Len(outcome.list) : outcome.list[n] = NeutralResult(candidates[i])

\* the only analysed candidate of a batch was answered with prose, and the
\* call returned
C14_Witness ==
  /\ pc = "done"
  /\ Len(candidates) = 2
  /\ Succeeded = { 2 }
  /\ \E k \in RequestsOf(2) : AnsweredWithoutJson(k)
  /\ outcome.tag = "returned"

\* the position in the batch of the candidate a result was built for (the
\* candidates of a batch have different display names)
Origin(r) ==
  CHOOSE i \in 1..Len(candidates) :
     r.candidateName = IF candidates[i].name = "" THEN "Candidate " \o candidates[i].id
                       ELSE candidates[i].name

\* C15: a returned list is ordered by overallScore, non-increasing; it is a
\* permutation of the produced results (live: the results pushed by the
\* loop; demo: one result for each candidate); results of equal overallScore
\* stand in the order of their candidates in the batch.
C15_SortedStablePermutation ==
  outcome.tag = "returned" =>
     LET list == outcome.list
     IN /\ \A a, b \in 1..Len(list) :
             a < b =>
                /\ list[a].scores.overallScore >= list[b].scores.overallScore
                /\ list[a].scores.overallScore = list[b].scores.overallScore
                     => Origin(list[a]) < Origin(list[b])
        /\ ~demoMode => IsPermutation(list, results)
        /\ demoMode =>
             /\ Len(list) = Len(candidates)
             /\ { Origin(list[n]) : n \in 1..Len(list) } = 1..Len(candidates)

\* a live call returned two results of equal overallScore
C15_Witness ==
  /\ ~demoMode
  /\ outcome.tag = "returned"
  /\ Len(outcome.list) = 2
  /\ outcome.list[1].scores.overallScore = outcome.list[2].scores.overallScore
  /\ outcome.list[1] # outcome.list[2]

\* a live call returned the result of the second candidate before that of
\* the first
C15_Reordered ==
  /\ ~demoMode
  /\ outcome.tag = "returned"
  /\ Len(outcome.list) = 2
  /\ Origin(outcome.list[1]) = 2

SubScoreFields ==
  { "readability", "extensibility", "testability", "originalityScore", "seniorityFit" }

\* C16: the five sub-scores of every result, pushed by the loop or held by
\* a returned list, lie in 0..100.
C16_SubScoresInRange ==
  \A r \in Range(results) \cup (IF outcome.tag = "returned" THEN Range(outcome.list) ELSE {}) :
     \A f \in SubScoreFields : r.scores[f] \in 0..100

RECURSIVE ConcatContents(_)
\* the contents of the files of a manifest, one after the other
ConcatContents(files) ==
  IF files = <<>> THEN ""
  ELSE Head(files).content \o "\n" \o ConcatContents(Tail(files))

\* C17: the code source of every request is the candidate's GitHub URL when
\* githubRepo is non-empty after trimming; otherwise it is the concatenated
\* contents of the files of the candidate's manifest, and for a candidate
\* without manifest it is not the text built from the typed path.
C17_SourceSelection ==
  \A k \in 1..Len(requests) :
     LET c == candidates[requests[k].index]
     IN IF Trim(c.githubRepo) # "" THEN requests[k].codeSource = c.githubRepo
        ELSE IF c.localFiles.present
             THEN requests[k].codeSource = ConcatContents(c.localFiles.codeFiles)
             ELSE requests[k].codeSource # "Local path: " \o c.localPath

\* C18: once analyzeCode was called with demo mode on, with or without a
\* credential, the call has returned one mock result for each candidate, the
\* request log is empty and no notification was raised.
C18_DemoBypassesNetwork ==
  (pc # "idle" /\ demoMode) =>
     /\ pc = "done"
     /\ requests = <<>>
     /\ toasts = <<>>
     /\ outcome.tag = "returned"
     /\ Len(outcome.list) = Len(candidates)
     /\ \A r \in Range(outcome.list) :
          /\ r.feedback = << "mock feedback" >>
          /\ \E i \in 1..Len(candidates) : r.candidateId = candidates[i].id

\* a demo call without credential returned results for a batch that holds
\* a candidate with a code source
C18_Witness ==
  /\ demoMode
  /\ apiKey = ""
  /\ pc = "done"
  /\ outcome.tag = "returned"
  /\ Len(outcome.list) = 2
  /\ ~BothBlank(candidates[1])

\* the requests that have not been answered
Outstanding == { k \in 1..Len(requests) : requests[k].reply = NoReply }

\* the attempt for the candidate at position i is over: every request made
\* for it is answered, and its result is pushed or its failure reported
Completed(i) ==
  /\ \A k \in RequestsOf(i) : requests[k].reply # NoReply
  /\ IF i \in Succeeded THEN results = ExpectedResults ELSE FailureToasts(i) # {}

\* a step that issues a request for another candidate than the one the
\* request before it was made for
NextCandidateRequested ==
  /\ Len(requests') = Len(requests) + 1
  /\ requests # <<>>
  /\ requests'[Len(requests')].index # requests[Len(requests)].index

\* C19: at most one request is outstanding, and it is the last one of the
\* log; the log goes through the candidates in batch order; a step that
\* issues the first request for another candidate starts from a state in
\* which the attempt for every candidate with a request is over.
C19_OneRequestAtATime ==
  /\ [](/\ Cardinality(Outstanding) <= 1
        /\ Outstanding \subseteq { Len(requests) }
        /\ \A k \in 1..(Len(requests) - 1) : requests[k].index <= requests[k + 1].index)
  /\ [][NextCandidateRequested =>
          /\ Outstanding = {}
          /\ requests'[Len(requests')].index > requests[Len(requests)].index
          /\ \A k \in 1..Len(requests) : Completed(requests[k].index)]_vars

\* the second candidate's request went out after two requests for the first
C19_Witness ==
  /\ Cardinality(RequestsOf(1)) = 2
  /\ RequestsOf(2) # {}

\* C20 as stated: no candidate has more than two requests in the log.
C20_AtMostTwoRequests ==
  \A i \in 1..Len(candidates) : Cardinality(RequestsOf(i)) <= 2

\* C20 (amended): a candidate has at most one request more than there are
\* tiers below the selected model (three for gpt-4o, two for gpt-4o-mini,
\* one for gpt-3.5-turbo), and every request but the last one made for it
\* was answered with a failure.
C20_AtMostOnePerTier ==
  /\ \A i \in 1..Len(candidates) :
       Cardinality(RequestsOf(i)) <= Len(AVAILABLE_MODELS) - Ladder(selectedModel) + 1
  /\ \A k \in 1..Len(requests) :
       ~IsLastRequest(k) =>
          /\ requests[k].reply # NoReply
          /\ ~OkReply(requests[k].reply)

\* three requests were made for one candidate
C20_Witness ==
  /\ selectedModel = "gpt-4o"
  /\ Cardinality(RequestsOf(1)) = 3
  /\ requests[3].model = "gpt-3.5-turbo"

\* the messages the orchestrator and callLLMApi word themselves
FixedMessages ==
  { MsgAllQuota, MsgNoAccessRequested, MsgKeyNotProvided, MsgInvalidKey, MsgQuotaFriendly,
    MsgRateFriendly, MsgBilling, MsgNoContent }
  \cup { MsgNoAccessModel(m) : m \in ModelIds }
  \cup { MsgStatus(st) : st \in { 401, 404, 429, 500 } }

\* the endpoint answered the request with a failure body that holds a message
FailureBodyReply(reply) == reply.kind = "error" /\ reply.body = "message"

\* C27: when the last request made for a candidate was answered with a
\* failure body, the text of every failure notification of that candidate is
\* one of the fixed messages and is not the message of the remote payload.
C27_NoRawRemoteMessage ==
  \A k \in 1..Len(requests) :
     (IsLastRequest(k) /\ FailureBodyReply(requests[k].reply)) =>
        \A n \in FailureToasts(requests[k].index) :
           /\ toasts[n].description \in FixedMessages
           /\ toasts[n].description # requests[k].reply.message

\* the part of C27 that the code keeps: a failure of a candidate's only
\* request that analyzeCode itself classifies (quota or rate limit with no
\* fallback left, model access) is reported with the orchestrator's own
\* message
C27_ClassifiedFailuresFixed ==
  \A k \in 1..Len(requests) :
     (/\ IsFirstRequest(k)
      /\ IsLastRequest(k)
      /\ FailureBodyReply(requests[k].reply)
      /\ \/ Includes(requests[k].reply.message, "rate limit")
         \/ Includes(requests[k].reply.message, "quota exceeded")
         \/ Includes(requests[k].reply.message, "does not exist")) =>
        \A n \in FailureToasts(requests[k].index) :
           /\ toasts[n].description \in FixedMessages
           /\ toasts[n].description # requests[k].reply.message

\* request k + 1 is the retry made after request k failed
IsRetry(k) == k < Len(requests) /\ requests[k + 1].index = requests[k].index

\* C28: with setModel calls interleaved with the pending requests, a retry is
\* sent to a strictly later rung of the ladder than the request that failed,
\* and a candidate whose failed request was sent to a model that is not the
\* last rung is never reported with the no-more-fallbacks message.
C28_RetryIsCheaperThanSent ==
  \A k \in 1..Len(requests) :
     /\ IsRetry(k) => Ladder(requests[k + 1].model) > Ladder(requests[k].model)
     /\ (requests[k].reply # NoReply /\ requests[k].model # "gpt-3.5-turbo") =>
          \A n \in FailureToasts(requests[k].index) : toasts[n].description # MsgAllQuota

\* the part of C28 that the code keeps: without a configuration change during
\* the batch the retries go down the ladder
C28_RetryIsCheaperUnchanged ==
  changes = 0 =>
    \A k \in 1..Len(requests) :
       /\ IsRetry(k) => Ladder(requests[k + 1].model) > Ladder(requests[k].model)
       /\ (requests[k].reply # NoReply /\ requests[k].model # "gpt-3.5-turbo") =>
            \A n \in FailureToasts(requests[k].index) : toasts[n].description # MsgAllQuota

\* C29: no step of analyzeCode changes the credential, the selected model or
\* the demo flag, whatever the outcome, and the first request made for every
\* candidate, also behind a candidate that needed a fallback, is sent to the
\* selected model.
C29_ConfigurationUnchanged ==
  /\ [][apiKey' = apiKey /\ selectedModel' = selectedModel /\ demoMode' = demoMode]_vars
  /\ [](\A k \in 1..Len(requests) : IsFirstRequest(k) => requests[k].model = selectedModel)

\* the first candidate was answered on a fallback model and the second
\* candidate's first request went to the selected model; the call returned
C29_Witness ==
  /\ outcome.tag = "returned"
  /\ selectedModel = "gpt-4o"
  /\ Cardinality(RequestsOf(1)) = 2
  /\ 1 \in Succeeded
  /\ \E k \in RequestsOf(2) : IsFirstRequest(k) /\ requests[k].model = "gpt-4o"

----------------------------------------------------------------------------
(* The assessment form: what the claims speak about *)

DistinctIds(list) ==
  \A i, j \in 1..Len(list) : i # j => list[i].id # list[j].id

\* C23: after any interleaving of add and remove operations the ids of the
\* candidates in the list, and in the batch handed to analyzeCode, are
\* pairwise distinct
C23_IdsPairwiseDistinct == DistinctIds(formCandidates) /\ DistinctIds(candidates)

\* the step in which the picker is dismissed
DismissStep == lastOp # "dismiss" /\ lastOp' = "dismiss"

\* the step in which handleLocalFileSelect continues after a dismissal
SettleAfterDismiss == lastOp = "dismiss" /\ browse.state = "pending" /\ browse'.state = "none"

\* C22: when the user dismisses the directory picker (native or fallback) the
\* selection completes with null, no notification is raised, and the
\* candidates of the form stay as they are, also when handleLocalFileSelect
\* continues with the null
C22_DismissalIsEmptyResult ==
  /\ [][DismissStep => /\ scanPc = "idle"
                       /\ scanPc' = "done"
                       /\ scanResult' = NullResult
                       /\ toasts' = toasts
                       /\ formCandidates' = formCandidates]_vars
  /\ [][SettleAfterDismiss => /\ scanResult = NullResult
                              /\ toasts' = toasts
                              /\ formCandidates' = formCandidates]_vars

\* a named candidate's picker was dismissed and handleLocalFileSelect has
\* returned
C22_Witness ==
  /\ lastOp = "dismiss"
  /\ browse = NoBrowse
  /\ scanPc = "idle"
  /\ formCandidates[1].name = "Ann"
  /\ formCandidates[1].localPath = ""
  /\ toasts = <<>>

\* the step in which the submit button is pressed
SubmitStep == ops' = ops + 1 /\ lastOp' = "submit"

\* C24: with demo mode on and no key stored, pressing submit on a form with
\* a candidate that has a code source enters analyzeCode, which returns the
\* mock results
C24_DemoSubmitReachesAnalyzeCode ==
  [][(SubmitStep /\ demoMode /\ apiKey = "" /\ ~isAnalyzing
        /\ Len(validCandidates(formCandidates)) > 0)
       => (pc' = "done" /\ outcome'.tag = "returned")]_vars

\* analyzeCode is never entered from the form while demo mode is on, and the
\* results dialog never shows mock results
C24_MockResultsNeverShown ==
  /\ [][(pc = "idle" /\ pc' # "idle") => ~demoMode]_vars
  /\ [](\A i \in 1..Len(assessmentResults) :
          assessmentResults[i].feedback # MockArrays.feedback)

\* demo mode is on only while no key is stored, and then the submit button
\* is disabled
C24_DemoImpliesSubmitDisabled == demoMode => (apiKey = "" /\ ~isApiKeySet)

\* the step in which handleLocalFileSelect stores a completed selection
SettleWithAnalysis ==
  browse.state = "pending" /\ browse'.state = "none" /\ scanResult.tag = "analysis"

\* C30: when a directory selection completes, the candidates list is the
\* list as it is at that moment, with the selection's localPath and manifest
\* stored in the candidate: every change made while the selection was
\* pending is kept
C30_NoLostUpdate ==
  [][SettleWithAnalysis
       => formCandidates' = updateCandidate(formCandidates, browse.id,
                                            PickedDirectory(scanResult))]_vars

\* the selection itself is always stored: the list after the step is the
\* list of the render the Browse button was pressed in, with the selection's
\* localPath and manifest in the candidate
C30_SelectionStoredInStaleList ==
  [][SettleWithAnalysis
       => /\ Len(formCandidates') = Len(browse.list)
          /\ \A j \in 1..Len(browse.list) :
               formCandidates'[j] =
                 IF browse.list[j].id = browse.id
                 THEN [browse.list[j] EXCEPT !.localPath = scanResult.path,
                                            !.localFiles = [present |-> TRUE,
                                                            fileCount |-> scanResult.fileCount,
                                                            codeFiles |-> scanResult.codeFiles]]
                 ELSE browse.list[j]]_vars

====
